---- MODULE Spec2Model ----
(***************************************************************************)
(* A model of the MCTP router of mctp-estack (src/mctp-estack/src/router.rs) *)
(*                                                                         *)
(* Tasks call the router's operations; every step of a task runs from one  *)
(* await (or critical section) of the code to the next.  The async mutexes *)
(* and the port queue are built on CriticalSectionRawMutex                 *)
(* (router.rs:33,38), so the router may be shared by tasks of several      *)
(* executors or interrupt priorities: the steps of different tasks         *)
(* interleave freely.                                                      *)
(*                                                                         *)
(* Stack, Fragmenter and Reassembler live in other files of the crate; they *)
(* are modelled from their contracts in the specification (section 6).     *)
(***************************************************************************)
EXTENDS Integers, Sequences, FiniteSets, TLC

(***************************************************************************)
(* Bounds.  The sizes of the program are scaled down to these.             *)
(***************************************************************************)
\* slots of the listener table (router.rs:29 has 20)
MAX_LISTENERS == 2
\* depth of each port queue (PortStorage<FORWARD_QUEUE>, router.rs:246)
FORWARD_QUEUE == 2
\* largest packet a PktBuf holds, in bytes (crate::MAX_MTU, router.rs:18)
MAX_MTU == 6
\* capacity of a port's flatten buffer, in bytes (crate::MAX_PAYLOAD, router.rs:19)
MAX_PAYLOAD == 3
\* ports handed to Router::new
NumPorts == 2
\* reassembly slots of the stack
NumReasm == 2
\* tag values the stack's flow allocator hands out per peer
NumTags == 1

\* tasks: a transport driver feeding inbound, and an application
NoTask == "none"
Drivers == {"drv"}
Apps == {"app", "app2"}
\* the application of the specifications that need one only
FirstApp == {"app"}
\* the transport driver that owns the PortBottom of port 0
Consumers == {"tx"}
Tasks == Drivers \cup Apps \cup Consumers

Ports == 0 .. (NumPorts - 1)
Cookies == 0 .. (MAX_LISTENERS - 1)
Slots == 0 .. (FORWARD_QUEUE - 1)
Handles == 1 .. NumReasm
TagValues == 0 .. (NumTags - 1)
\* message types: one more than the table has slots
MsgTypes == 1 .. (MAX_LISTENERS + 1)

\* endpoint ids of the scenario: the stack's own, a peer behind port 0, a peer
\* behind the last port, one without a route, one routed to a missing port
Eid == [local |-> 8, peer |-> 9, far |-> 12, noroute |-> 13, badport |-> 14,
        alt |-> 10]

\* Option<T>: None is <<>>, Some(x) is <<x>>
None == <<>>
Some(x) == <<x>>
IsSome(o) == Len(o) = 1
Unwrap(o) == o[1]

Min(S) == CHOOSE x \in S : \A y \in S : x <= y

(***************************************************************************)
(* PortLookup::by_eid: the routing policy the application supplies.        *)
(* This one never routes a packet back out of the port it came in on; a    *)
(* port id may lie outside the ports slice.                                *)
(***************************************************************************)
route(eid) ==
    CASE eid = Eid.peer -> Some(0)
      [] eid = Eid.far -> Some(NumPorts - 1)
      [] eid = Eid.badport -> Some(NumPorts)
      [] OTHER -> None

by_eid(eid, source_port) ==
    IF route(eid) = source_port THEN None ELSE route(eid)

\* PortTop.mtu of port p, as given to PortBuilder::build (mtu <= MAX_MTU)
mtu(p) == MAX_MTU

(***************************************************************************)
(* Packets.  A packet is its MCTP header fields and its length in bytes.   *)
(*   ok    Reassembler::header parses it                                   *)
(*   to    tag-owner bit: Tag::Owned on receive                            *)
(***************************************************************************)
\* bytes of the MCTP transport header
HdrLen == 4

Pkt(ok, src, dest, som, eom, to, tv, typ, seq, len) ==
    [ok |-> ok, src |-> src, dest |-> dest, som |-> som, eom |-> eom,
     to |-> to, tv |-> tv, typ |-> typ, seq |-> seq, len |-> len]

ZeroPkt == Pkt(FALSE, 0, 0, FALSE, FALSE, FALSE, 0, 0, 0, 0)

(***************************************************************************)
(* PktBuf (router.rs:66-99)                                                *)
(***************************************************************************)
\* PktBuf::new
PktBufNew == [data |-> ZeroPkt, len |-> 0, dest |-> 0]

\* the build the model describes: debug_assert! is compiled in
debug_assertions == TRUE

\* what PktBuf::set does with a packet whose header does not parse: the
\* debug build panics at debug_assert!(hdr.is_ok()), a build without debug
\* assertions returns the error of Reassembler::header (router.rs:82-83)
set_bad_header == IF debug_assertions THEN "panic" ELSE "InvalidInput"

\* PktBuf::set leaving dest as it was
PktBufSet_nodest(buf, pkt) ==
    IF ~pkt.ok THEN [res |-> set_bad_header, buf |-> buf]
    ELSE IF pkt.len > MAX_MTU THEN [res |-> "NoSpace", buf |-> buf]
    ELSE [res |-> "Ok",
          buf |-> [data |-> pkt, len |-> pkt.len, dest |-> buf.dest]]

\* PktBuf::set: the header must parse and the bytes must fit the buffer
PktBufSet(buf, pkt) ==
    IF ~pkt.ok THEN [res |-> set_bad_header, buf |-> buf]
    ELSE IF pkt.len > MAX_MTU THEN [res |-> "NoSpace", buf |-> buf]
    ELSE [res |-> "Ok",
          buf |-> [data |-> pkt, len |-> pkt.len, dest |-> pkt.dest]]

\* Deref for PktBuf, with the dest the consumer is given: data[..len] and dest
PktBufView(buf) ==
    [data |-> IF buf.len = 0 THEN ZeroPkt ELSE buf.data,
     len |-> buf.len, dest |-> buf.dest]

(***************************************************************************)
(* The port queue: embassy_sync::zerocopy_channel over the PktBuf slots,   *)
(* as the router uses it.                                                  *)
(***************************************************************************)
\* Channel::new(storage.packets.as_mut_slice())
ChannelNew == [buf |-> [i \in Slots |-> PktBufNew], front |-> 0, back |-> 0,
               full |-> FALSE]

ChanIsEmpty(c) == c.front = c.back /\ ~c.full

\* Receiver::len
ChanLen(c) ==
    IF c.full THEN FORWARD_QUEUE
    ELSE (c.back - c.front + FORWARD_QUEUE) % FORWARD_QUEUE

\* Sender::try_send / Sender::send: the slot handed out, None when the ring is full
SendSlot(c) == IF c.full THEN None ELSE Some(c.back)

\* Sender::send_done
SendDone(c) ==
    LET b == (c.back + 1) % FORWARD_QUEUE
    IN  [c EXCEPT !.back = b, !.full = (b = c.front)]

\* Receiver::try_receive / Receiver::receive: the slot peeked, None when empty
ReceiveSlot(c) == IF ChanIsEmpty(c) THEN None ELSE Some(c.front)

\* Receiver::receive_done
ReceiveDone(c) ==
    [c EXCEPT !.front = (c.front + 1) % FORWARD_QUEUE, !.full = FALSE]

\* what the consumer can observe, oldest first
Visible(c) ==
    [i \in 1 .. ChanLen(c) |->
        PktBufView(c.buf[(c.front + i - 1) % FORWARD_QUEUE])]

(***************************************************************************)
(* Stack (crate::Stack), from its contract: reassembly slots that hold a   *)
(* message until the application fetched it, and the flows of the tags     *)
(* this endpoint allocated.                                                *)
(*   st = "free"      unused                                               *)
(*        "partial"   a reassembly in progress                             *)
(*        "busy"      complete, its ReceiveHandle is held by the router    *)
(*        "deferred"  complete, returned with return_handle                *)
(***************************************************************************)
FreeRe == [st |-> "free", src |-> 0, typ |-> 0, to |-> FALSE, tv |-> 0,
           cookie |-> None, plen |-> 0]

StackNew == [re |-> [h \in Handles |-> FreeRe], flows |-> {},
             own_eid |-> Eid.local]

\* Stack::is_local_dest
is_local_dest(s, pkt) == pkt.dest = s.own_eid

\* Stack::set_eid with an EID an endpoint may have
set_eid(s, eid) == [res |-> "Ok", s |-> [s EXCEPT !.own_eid = eid]]

\* Stack::receive: Ok(Some((msg, handle))), Ok(None) or Err
StackReceive(s, pkt) ==
    LET match == {h \in Handles : /\ s.re[h].st = "partial"
                                  /\ s.re[h].src = pkt.src
                                  /\ s.re[h].to = pkt.to
                                  /\ s.re[h].tv = pkt.tv}
        free == {h \in Handles : s.re[h].st = "free"}
        cand == IF match # {} THEN match ELSE IF pkt.som THEN free ELSE {}
        st == IF pkt.eom THEN "busy" ELSE "partial"
    IN  IF cand = {} THEN [res |-> "err", h |-> 0, s |-> s]
        ELSE LET h == Min(cand)
                 r == IF pkt.som
                      THEN [st |-> st, src |-> pkt.src, typ |-> pkt.typ,
                            to |-> pkt.to, tv |-> pkt.tv, cookie |-> None,
                            plen |-> pkt.len - HdrLen]
                      ELSE [s.re[h] EXCEPT !.st = st,
                                           !.plen = @ + pkt.len - HdrLen]
             IN  [res |-> IF pkt.eom THEN "msg" ELSE "none", h |-> h,
                  s |-> [s EXCEPT !.re[h] = r]]

\* Stack::set_cookie
set_cookie(s, h, cookie) == [s EXCEPT !.re[h].cookie = cookie]

\* Stack::return_handle
return_handle(s, h) == [s EXCEPT !.re[h].st = "deferred"]

\* Stack::finished_receive
finished_receive(s, h) == [s EXCEPT !.re[h] = FreeRe]

\* Stack::get_deferred_bycookie(&[cookie])
get_deferred_bycookie(s, cookie) ==
    LET m == {h \in Handles : /\ s.re[h].st = "deferred"
                              /\ s.re[h].cookie = Some(cookie)}
    IN  IF m = {} THEN None ELSE Some(Min(m))

\* Stack::get_deferred(eid, tag), tag = Unowned(tv)
get_deferred(s, eid, tv) ==
    LET m == {h \in Handles : /\ s.re[h].st = "deferred"
                              /\ s.re[h].src = eid
                              /\ ~s.re[h].to
                              /\ s.re[h].tv = tv}
    IN  IF m = {} THEN None ELSE Some(Min(m))

\* Stack::update(now): the flows in fl and the reassemblies in hs reached
\* their timeout; the flag tells whether anything expired
StackUpdate(s, fl, hs) ==
    [s |-> [s EXCEPT !.flows = @ \ fl,
                     !.re = [h \in Handles |->
                                IF h \in hs THEN FreeRe ELSE @[h]]],
     expired |-> fl # {} \/ hs # {}]

\* what a call of update can find expired: flows that expire, reassemblies
\* in progress and messages left in the deferred set
ExpirableFlows(s) == {f \in s.flows : f.expires}
ExpirableHandles(s) ==
    {h \in Handles : s.re[h].st \in {"partial", "deferred"}}

\* Stack::cancel_flow(eid, tv): the flow is released, or there is none
cancel_flow(s, eid, tv) ==
    LET fl == {f \in s.flows : f.eid = eid /\ f.tv = tv}
    IN  [res |-> IF fl = {} THEN "BadArgument" ELSE "Ok",
         s |-> [s EXCEPT !.flows = @ \ fl]]

\* taking the handle out of the deferred set
take_handle(s, h) == [s EXCEPT !.re[h].st = "busy"]

\* Stack::fetch_message: source, type, tag and payload length
fetch_message(s, h) ==
    [src |-> s.re[h].src, typ |-> s.re[h].typ, to |-> s.re[h].to,
     tv |-> s.re[h].tv, plen |-> s.re[h].plen]

NoMsg == [src |-> 0, typ |-> 0, to |-> FALSE, tv |-> 0, plen |-> 0]

(***************************************************************************)
(* Stack::start_send and the Fragmenter it returns.                        *)
(* tag: None allocates an Owned tag, Some([owner, tv]) uses the given one. *)
(***************************************************************************)
NoFrag == [src |-> 0, dest |-> 0, typ |-> 0, owner |-> FALSE, tv |-> 0, total |-> 0,
           sent |-> 0, seq |-> 0, mtu |-> 0, done |-> FALSE]

NewFrag(src, eid, typ, owner, tv, m) ==
    [src |-> src, dest |-> eid, typ |-> typ, owner |-> owner, tv |-> tv, total |-> 0,
     sent |-> 0, seq |-> 0, mtu |-> m, done |-> FALSE]

start_send(s, eid, typ, tag, tag_expires, m) ==
    LET used == {f.tv : f \in {g \in s.flows : g.eid = eid}}
        free == TagValues \ used
    IN  IF tag = None
        THEN IF free = {}
             THEN [res |-> "TagUnavailable", frag |-> NoFrag, s |-> s]
             ELSE [res |-> "Ok",
                   frag |-> NewFrag(s.own_eid, eid, typ, TRUE, Min(free), m),
                   s |-> [s EXCEPT !.flows = @ \cup
                            {[eid |-> eid, tv |-> Min(free),
                              expires |-> tag_expires]}]]
        ELSE IF ~Unwrap(tag).owner
        THEN [res |-> "Ok",
              frag |-> NewFrag(s.own_eid, eid, typ, FALSE, Unwrap(tag).tv, m),
              s |-> s]
        ELSE IF [eid |-> eid, tv |-> Unwrap(tag).tv, expires |-> FALSE]
                    \in s.flows /\ ~tag_expires
        THEN [res |-> "Ok",
              frag |-> NewFrag(s.own_eid, eid, typ, TRUE, Unwrap(tag).tv, m),
              s |-> s]
        ELSE [res |-> "BadArgument", frag |-> NoFrag, s |-> s]

\* Fragmenter::fragment on a payload of `total` bytes: the next packet
FragPacket(f, total) ==
    LET room == f.mtu - HdrLen
        left == total - f.sent
        n == IF left < room THEN left ELSE room
    IN  Pkt(TRUE, f.src, f.dest, f.seq = 0, left - n = 0, f.owner, f.tv,
            f.typ, f.seq, HdrLen + n)

\* the fragmenter after that packet
FragAdvance(f, total) ==
    LET p == FragPacket(f, total)
    IN  [f EXCEPT !.total = total, !.sent = @ + p.len - HdrLen,
                  !.seq = @ + 1, !.done = p.eom]

(***************************************************************************)
(* Listener table (router.rs:325): Option<(MsgType, WakerRegistration)>    *)
(* per slot; typ = 0 - 1 marks None.                                       *)
(***************************************************************************)
NoBind == [typ |-> 0 - 1, waker |-> NoTask]
IsBound(e) == e.typ >= 0
ListenersNew == [c \in Cookies |-> NoBind]

\* app_bind without the scan for an existing bind of the type
app_bind_noscan(a, typ) ==
    LET free == {c \in Cookies : ~IsBound(a[c])}
    IN  IF free # {}
        THEN [res |-> "Ok", cookie |-> Some(Min(free)),
              a |-> [a EXCEPT ![Min(free)] = [typ |-> typ, waker |-> NoTask]]]
        ELSE [res |-> "NoSpace", cookie |-> None, a |-> a]

\* app_bind looking for a free slot before it looks for the type
app_bind_freefirst(a, typ) ==
    LET free == {c \in Cookies : ~IsBound(a[c])}
    IN  IF free = {} THEN [res |-> "NoSpace", cookie |-> None, a |-> a]
        ELSE IF \E c \in Cookies : IsBound(a[c]) /\ a[c].typ = typ
        THEN [res |-> "AddrInUse", cookie |-> None, a |-> a]
        ELSE [res |-> "Ok", cookie |-> Some(Min(free)),
              a |-> [a EXCEPT ![Min(free)] = [typ |-> typ, waker |-> NoTask]]]

\* Router::app_bind (router.rs:492-513)
app_bind(a, typ) ==
    LET free == {c \in Cookies : ~IsBound(a[c])}
    IN  IF \E c \in Cookies : IsBound(a[c]) /\ a[c].typ = typ
        THEN [res |-> "AddrInUse", cookie |-> None, a |-> a]
        ELSE IF free # {}
        THEN [res |-> "Ok", cookie |-> Some(Min(free)),
              a |-> [a EXCEPT ![Min(free)] = [typ |-> typ, waker |-> NoTask]]]
        ELSE [res |-> "NoSpace", cookie |-> None, a |-> a]

\* app_unbind answering Ok for a slot that is already empty
app_unbind_nocheck(a, cookie) ==
    IF cookie \notin Cookies THEN [res |-> "BadArgument", a |-> a]
    ELSE [res |-> "Ok", a |-> [a EXCEPT ![cookie] = NoBind]]

\* Router::app_unbind (router.rs:515-530)
app_unbind(a, cookie) ==
    IF cookie \notin Cookies THEN [res |-> "BadArgument", a |-> a]
    ELSE IF ~IsBound(a[cookie]) THEN [res |-> "BadArgument", a |-> a]
    ELSE [res |-> "Ok", a |-> [a EXCEPT ![cookie] = NoBind]]

\* incoming_listener handing the message to the first listener of any type
find_listener_anytype(a, typ) ==
    LET m == {c \in Cookies : IsBound(a[c])}
    IN  IF m = {} THEN None ELSE Some(Min(m))

\* the listener incoming_listener picks for a type (router.rs:460-475)
find_listener(a, typ) ==
    LET m == {c \in Cookies : IsBound(a[c]) /\ a[c].typ = typ}
    IN  IF m = {} THEN None ELSE Some(Min(m))

(***************************************************************************)
(* State                                                                   *)
(***************************************************************************)
VARIABLES
    pc,                 \* where each task is in its call
    loc,                \* the arguments and locals of each task's call
    inner,              \* owner of Router.inner, the router mutex
    stack,              \* RouterInner.stack
    app_receive_wakers, \* RouterInner.app_receive_wakers
    app_listeners,      \* Router.app_listeners
    packets,            \* per port: owner of PortTop.packets, the producer mutex
    message,            \* per port: owner of PortTop.message, the flatten mutex
    msgbuf,             \* per port: bytes in the flatten buffer
    chan,               \* per port: the packet queue
    req,                \* per application: its RouterAsyncReqChannel
    calls               \* the last two calls of app_bind and app_unbind

vars == <<pc, loc, inner, stack, app_receive_wakers, app_listeners, packets,
          message, msgbuf, chan, req, calls>>

IdleLoc ==
    [op |-> "", pkt |-> ZeroPkt, port |-> 0, top |-> 0, ret |-> None,
     fres |-> "", h |-> 0, cookie |-> None, ltyp |-> 0, sel |-> None,
     buflen |-> 0, chunks |-> <<>>, frag |-> NoFrag, res |-> "",
     rmsg |-> NoMsg, lookup |-> None, peek |-> None, eid |-> 0]

\* RouterAsyncReqChannel::new (router.rs:715-722)
ReqChannelNew(eid) == [eid |-> eid, sent_tag |-> None, tag_expires |-> TRUE]

\* Router::new, PortBuilder::build, Router::req
Init ==
    /\ pc = [t \in Tasks |-> "idle"]
    /\ loc = [t \in Tasks |-> IdleLoc]
    /\ inner = NoTask
    /\ stack = StackNew
    /\ app_receive_wakers = {}
    /\ app_listeners = ListenersNew
    /\ packets = [p \in Ports |-> NoTask]
    /\ message = [p \in Ports |-> NoTask]
    /\ msgbuf = [p \in Ports |-> 0]
    /\ chan = [p \in Ports |-> ChannelNew]
    /\ req = [t \in Apps |-> ReqChannelNew(IF t \in FirstApp THEN Eid.peer
                                            ELSE Eid.far)]
    /\ calls = <<>>

\* a wake that reaches nobody
Wake_nobody(pcs, ws) == pcs

\* WakerRegistration::wake / MultiWakerRegistration::wake: the tasks in `ws`
\* that are suspended in a receive are polled again
Wake(pcs, ws) ==
    [x \in Tasks |-> IF x \in ws /\ pcs[x] = "rcv_wait" THEN "rcv_poll"
                     ELSE pcs[x]]

\* a call returns: the task takes up `l` as its result
Finish(t, l) ==
    /\ pc' = [pc EXCEPT ![t] = "done"]
    /\ loc' = [loc EXCEPT ![t] = l]

\* the caller has read the result
Return(t) ==
    /\ pc[t] = "done"
    /\ pc' = [pc EXCEPT ![t] = "idle"]
    /\ loc' = [loc EXCEPT ![t] = IdleLoc]
    /\ UNCHANGED <<inner, stack, app_receive_wakers, app_listeners, packets,
                   message, msgbuf, chan, req, calls>>

(***************************************************************************)
(* Router::update_time (router.rs:372-381)                                 *)
(***************************************************************************)
CallUpdateTime(t) ==
    /\ pc[t] = "idle"
    /\ pc' = [pc EXCEPT ![t] = "ut_lock"]
    /\ loc' = [loc EXCEPT ![t] = [IdleLoc EXCEPT !.op = "update_time"]]
    /\ UNCHANGED <<inner, stack, app_receive_wakers, app_listeners, packets,
                   message, msgbuf, chan, req, calls>>

\* self.inner.lock().await (router.rs:373)
UtLock(t) ==
    /\ pc[t] = "ut_lock"
    /\ inner = NoTask
    /\ inner' = t
    /\ pc' = [pc EXCEPT ![t] = "ut_locked"]
    /\ UNCHANGED <<loc, stack, app_receive_wakers, app_listeners, packets,
                   message, msgbuf, chan, req, calls>>

\* the receive-waiters update_time wakes (router.rs:375-379)
expiry_wakes(expired, ws) == IF expired THEN ws ELSE {}

\* stack.update, the wake when something expired, Ok(next)
\* (router.rs:374-380)
UtUpdate(t) ==
    /\ pc[t] = "ut_locked"
    /\ \/ \E fl \in SUBSET ExpirableFlows(stack),
              hs \in SUBSET ExpirableHandles(stack) :
              LET r == StackUpdate(stack, fl, hs)
                  ws == expiry_wakes(r.expired, app_receive_wakers)
              IN  /\ stack' = r.s
                  /\ app_receive_wakers' = app_receive_wakers \ ws
                  /\ pc' = [Wake(pc, ws) EXCEPT ![t] = "done"]
                  /\ loc' = [loc EXCEPT ![t].res =
                                 IF r.expired THEN "expired" ELSE "Ok"]
       \* Stack::update fails: `?` returns its error, nobody is woken
       \/ /\ Finish(t, [loc[t] EXCEPT !.res = "InvalidInput"])
          /\ UNCHANGED <<stack, app_receive_wakers>>
    /\ inner' = NoTask
    /\ UNCHANGED <<app_listeners, packets, message, msgbuf, chan, req, calls>>

\* Router::set_eid (router.rs:700)
CallSetEid(t, eid) ==
    /\ pc[t] = "idle"
    /\ pc' = [pc EXCEPT ![t] = "se_lock"]
    /\ loc' = [loc EXCEPT ![t] = [IdleLoc EXCEPT !.op = "set_eid",
                                                 !.eid = eid]]
    /\ UNCHANGED <<inner, stack, app_receive_wakers, app_listeners, packets,
                   message, msgbuf, chan, req, calls>>

\* self.inner.lock().await (router.rs:701)
SeLock(t) ==
    /\ pc[t] = "se_lock"
    /\ inner = NoTask
    /\ inner' = t
    /\ pc' = [pc EXCEPT ![t] = "se_locked"]
    /\ UNCHANGED <<loc, stack, app_receive_wakers, app_listeners, packets,
                   message, msgbuf, chan, req, calls>>

\* inner.stack.set_eid(eid.0), the guard is dropped (router.rs:702)
SetEid(t) ==
    /\ pc[t] = "se_locked"
    /\ LET r == set_eid(stack, loc[t].eid)
       IN  /\ stack' = r.s
           /\ Finish(t, [loc[t] EXCEPT !.res = r.res])
    /\ inner' = NoTask
    /\ UNCHANGED <<app_receive_wakers, app_listeners, packets, message,
                   msgbuf, chan, req, calls>>

(***************************************************************************)
(* Router::inbound (router.rs:389-436)                                     *)
(***************************************************************************)
\* the packets a driver hands to inbound
BadPkt == Pkt(FALSE, Eid.peer, Eid.local, TRUE, TRUE, TRUE, 0, 1, 0, 2)
ReqPkts == {Pkt(TRUE, Eid.peer, Eid.local, TRUE, TRUE, TRUE, 0, typ, 0,
                HdrLen + 1) : typ \in MsgTypes}
RespPkts == {Pkt(TRUE, src, Eid.local, TRUE, TRUE, FALSE, tv, 1, 0,
                 HdrLen + 1) : src \in {Eid.peer, Eid.far}, tv \in TagValues}
FragPkts == {Pkt(TRUE, Eid.peer, Eid.local, TRUE, FALSE, TRUE, 1, 1, 0,
                 HdrLen + 1),
             Pkt(TRUE, Eid.peer, Eid.local, FALSE, TRUE, TRUE, 1, 0, 1,
                 HdrLen + 1)}
LocalPkts == ReqPkts \cup RespPkts \cup FragPkts
\* packets for other endpoints: to the peer behind port 0, short and too
\* long for the port; to a missing port; to the far peer
PeerPkts == {Pkt(TRUE, Eid.far, Eid.peer, TRUE, TRUE, TRUE, 0, 1, 0, len) :
                len \in {HdrLen + 1, MAX_MTU + 1}}
BadPortPkt == Pkt(TRUE, Eid.far, Eid.badport, TRUE, TRUE, TRUE, 0, 1, 0,
                  HdrLen + 1)
FarPkt == Pkt(TRUE, Eid.peer, Eid.far, TRUE, TRUE, TRUE, 0, 1, 0, HdrLen + 1)
\* the types listeners are bound to outside the table's own specification
BindTypes == {1, 2}

\* Reassembler::header(pkt): the header fields, or an error
header(pkt) == IF pkt.ok THEN Some(pkt) ELSE None

CallInbound(t, pkt, port) ==
    /\ pc[t] = "idle"
    /\ pc' = [pc EXCEPT ![t] = "inb_lock"]
    /\ loc' = [loc EXCEPT ![t] = [IdleLoc EXCEPT !.op = "inbound",
                                                 !.pkt = pkt, !.port = port]]
    /\ UNCHANGED <<inner, stack, app_receive_wakers, app_listeners, packets,
                   message, msgbuf, chan, req, calls>>

\* self.inner.lock().await (router.rs:390)
InbLock(t) ==
    /\ pc[t] = "inb_lock"
    /\ inner = NoTask
    /\ inner' = t
    /\ pc' = [pc EXCEPT ![t] = "inb_locked"]
    /\ UNCHANGED <<loc, stack, app_receive_wakers, app_listeners, packets,
                   message, msgbuf, chan, req, calls>>

\* the value inbound returns once the header parsed (router.rs:396)
ret_src(pkt) == Some(pkt.src)

\* header does not parse (router.rs:392-394)
InbBadHeader(t) ==
    /\ pc[t] = "inb_locked"
    /\ header(loc[t].pkt) = None
    /\ inner' = NoTask
    /\ Finish(t, [loc[t] EXCEPT !.ret = None])
    /\ UNCHANGED <<stack, app_receive_wakers, app_listeners, packets,
                   message, msgbuf, chan, req, calls>>

\* local destination (router.rs:399-418): the stack reassembles
InbLocal(t) ==
    /\ pc[t] = "inb_locked"
    /\ header(loc[t].pkt) # None
    /\ is_local_dest(stack, loc[t].pkt)
    /\ LET r == StackReceive(stack, loc[t].pkt)
       IN  /\ stack' = r.s
           /\ inner' = NoTask
           /\ IF r.res = "msg"
              THEN /\ pc' = [pc EXCEPT ![t] =
                                IF stack'.re[r.h].to THEN "il_lock"
                                ELSE "ir_lock"]
                   /\ loc' = [loc EXCEPT ![t].h = r.h]
              ELSE Finish(t, [loc[t] EXCEPT !.ret = ret_src(loc[t].pkt),
                                            !.res = r.res])
    /\ UNCHANGED <<app_receive_wakers, app_listeners, packets, message,
                   msgbuf, chan, req, calls>>

\* inbound asking for a route without the port of arrival
inbound_lookup_nosource(pkt, port) == <<pkt.dest, None>>

\* the arguments of inner.lookup.by_eid in inbound (router.rs:421-423)
inbound_lookup(pkt, port) == <<pkt.dest, Some(port)>>

\* the arguments of inner.lookup.by_eid in app_send_message (router.rs:636)
send_lookup(eid) == <<eid, None>>

\* no route (router.rs:423-426)
InbNoRoute(t) ==
    /\ pc[t] = "inb_locked"
    /\ header(loc[t].pkt) # None
    /\ ~is_local_dest(stack, loc[t].pkt)
    /\ LET a == inbound_lookup(loc[t].pkt, loc[t].port)
       IN  /\ by_eid(a[1], a[2]) = None
           /\ Finish(t, [loc[t] EXCEPT !.ret = ret_src(loc[t].pkt),
                                       !.lookup = Some(a)])
    /\ inner' = NoTask
    /\ UNCHANGED <<stack, app_receive_wakers, app_listeners, packets,
                   message, msgbuf, chan, req, calls>>

\* inbound keeping the router mutex over forward_packet
inner_kept_forward(t) == t

\* the owner of the router mutex when forward_packet is called: it was
\* dropped (router.rs:427)
inner_in_forward(t) == NoTask

\* a route: the router mutex is dropped, then the port is looked up in the
\* ports slice (router.rs:427-432)
InbRoute(t) ==
    /\ pc[t] = "inb_locked"
    /\ header(loc[t].pkt) # None
    /\ ~is_local_dest(stack, loc[t].pkt)
    /\ LET a == inbound_lookup(loc[t].pkt, loc[t].port)
       IN  /\ by_eid(a[1], a[2]) # None
           /\ LET p == Unwrap(by_eid(a[1], a[2]))
              IN  IF p \in Ports
                  THEN /\ pc' = [pc EXCEPT ![t] = "fwd_lock"]
                       /\ loc' = [loc EXCEPT ![t].top = p,
                                             ![t].lookup = Some(a)]
                       /\ inner' = inner_in_forward(t)
                  ELSE /\ Finish(t, [loc[t] EXCEPT
                                         !.ret = ret_src(loc[t].pkt),
                                         !.lookup = Some(a)])
                       /\ inner' = NoTask
    /\ UNCHANGED <<stack, app_receive_wakers, app_listeners, packets,
                   message, msgbuf, chan, req, calls>>

(***************************************************************************)
(* PortTop::forward_packet (router.rs:122-145), called by inbound, which   *)
(* ignores its result (router.rs:434) and returns ret_src                  *)
(***************************************************************************)
\* debug_assert!(Reassembler::header(pkt).is_ok()): the debug build panics
\* on a packet whose header does not parse before it asks for the mutex
\* (router.rs:123); then self.packets.lock().await (router.rs:125)
FwdLock(t) ==
    /\ pc[t] = "fwd_lock"
    /\ IF debug_assertions /\ header(loc[t].pkt) = None
       THEN /\ pc' = [pc EXCEPT ![t] = "panic"]
            /\ UNCHANGED packets
       ELSE /\ packets[loc[t].top] = NoTask
            /\ packets' = [packets EXCEPT ![loc[t].top] = t]
            /\ pc' = [pc EXCEPT ![t] = "fwd_locked"]
    /\ UNCHANGED <<loc, inner, stack, app_receive_wakers, app_listeners,
                   message, msgbuf, chan, req, calls>>

\* inbound handing the error of forward_packet on as None
forwarded_ret_err(pkt, fres) == IF fres = "Ok" THEN ret_src(pkt) ELSE None

\* inbound after forward_packet: the result is ignored (router.rs:434-435)
forwarded_ret(pkt, fres) == ret_src(pkt)

\* the outcome of the checks before the slot is written (router.rs:129-138)
forward_check(pkt, m, c) ==
    IF pkt.len > m THEN "NoSpace"
    ELSE IF SendSlot(c) = None THEN "TxFailure"
    ELSE "Ok"

\* packet too large, or the ring is full: dropped (router.rs:129-138)
FwdDrop(t) ==
    /\ pc[t] = "fwd_locked"
    /\ LET p == loc[t].top
           r == forward_check(loc[t].pkt, mtu(p), chan[p])
       IN  /\ r # "Ok"
           /\ packets' = [packets EXCEPT ![p] = NoTask]
           /\ Finish(t, [loc[t] EXCEPT !.fres = r,
                                       !.ret = forwarded_ret(loc[t].pkt, r)])
    /\ UNCHANGED <<inner, stack, app_receive_wakers, app_listeners, message,
                   msgbuf, chan, req, calls>>

\* slot.set(pkt).unwrap() (router.rs:135-142)
FwdSet(t) ==
    /\ pc[t] = "fwd_locked"
    /\ LET p == loc[t].top
           i == Unwrap(SendSlot(chan[p]))
           r == PktBufSet(chan[p].buf[i], loc[t].pkt)
       IN  /\ forward_check(loc[t].pkt, mtu(p), chan[p]) = "Ok"
           /\ chan' = [chan EXCEPT ![p].buf[i] = r.buf]
           /\ pc' = [pc EXCEPT ![t] = IF r.res = "Ok" THEN "fwd_set"
                                      ELSE "panic"]
    /\ UNCHANGED <<loc, inner, stack, app_receive_wakers, app_listeners,
                   packets, message, msgbuf, req, calls>>

\* sender.send_done(), the guard is dropped, Ok(()) (router.rs:143-144)
FwdSendDone(t) ==
    /\ pc[t] = "fwd_set"
    /\ LET p == loc[t].top
       IN  /\ chan' = [chan EXCEPT ![p] = SendDone(chan[p])]
           /\ packets' = [packets EXCEPT ![p] = NoTask]
    /\ Finish(t, [loc[t] EXCEPT !.fres = "Ok",
                                !.ret = forwarded_ret(loc[t].pkt, "Ok")])
    /\ UNCHANGED <<inner, stack, app_receive_wakers, app_listeners, message,
                   msgbuf, req, calls>>

(***************************************************************************)
(* Router::incoming_local, incoming_listener, incoming_response            *)
(* (router.rs:438-490)                                                     *)
(***************************************************************************)
\* self.inner.lock().await (router.rs:453, 485)
IncomingLock(t) ==
    /\ pc[t] \in {"il_lock", "ir_lock"}
    /\ inner = NoTask
    /\ inner' = t
    /\ pc' = [pc EXCEPT ![t] = IF pc[t] = "il_lock" THEN "il_locked"
                               ELSE "ir_locked"]
    /\ UNCHANGED <<loc, stack, app_receive_wakers, app_listeners, packets,
                   message, msgbuf, chan, req, calls>>

\* incoming_listener (router.rs:456-481)
IncomingListener(t) ==
    /\ pc[t] = "il_locked"
    /\ LET h == loc[t].h
           c == find_listener(app_listeners, stack.re[h].typ)
       IN  IF c # None
           THEN /\ stack' = return_handle(set_cookie(stack, h, c), h)
                /\ app_listeners' =
                       [app_listeners EXCEPT ![Unwrap(c)].waker = NoTask]
                /\ pc' = [Wake(pc, {app_listeners[Unwrap(c)].waker})
                             EXCEPT ![t] = "done"]
                /\ loc' = [loc EXCEPT ![t].ret = ret_src(loc[t].pkt),
                                      ![t].res = "listener"]
           ELSE /\ stack' = finished_receive(stack, h)
                /\ Finish(t, [loc[t] EXCEPT !.ret = ret_src(loc[t].pkt),
                                            !.res = "nolistener"])
                /\ UNCHANGED app_listeners
    /\ inner' = NoTask
    /\ UNCHANGED <<app_receive_wakers, packets, message, msgbuf, chan, req,
                   calls>>

\* incoming_response (router.rs:484-490)
IncomingResponse(t) ==
    /\ pc[t] = "ir_locked"
    /\ stack' = return_handle(stack, loc[t].h)
    /\ app_receive_wakers' = {}
    /\ pc' = [Wake(pc, app_receive_wakers) EXCEPT ![t] = "done"]
    /\ loc' = [loc EXCEPT ![t].ret = ret_src(loc[t].pkt),
                          ![t].res = "response"]
    /\ inner' = NoTask
    /\ UNCHANGED <<app_listeners, packets, message, msgbuf, chan, req,
                   calls>>

(***************************************************************************)
(* Listeners: Router::listener (router.rs:685-691) and the drop of a       *)
(* RouterAsyncListener (router.rs:903-910)                                 *)
(***************************************************************************)
\* the tasks inside a recv of the listener with cookie c
Receiving(c) ==
    {x \in Tasks : /\ pc[x] \in {"rcv_poll", "rcv_locked", "rcv_wait", "done"}
                   /\ loc[x].op = "lrecv"
                   /\ loc[x].cookie = Some(c)}

ListenerNew(t, typ) ==
    /\ pc[t] = "idle"
    /\ LET r == app_bind(app_listeners, typ)
       IN  /\ app_listeners' = r.a
           /\ Finish(t, [IdleLoc EXCEPT !.op = "bind", !.ltyp = typ,
                                        !.res = r.res, !.cookie = r.cookie])
    /\ UNCHANGED <<inner, stack, app_receive_wakers, packets, message,
                   msgbuf, chan, req, calls>>

\* a listener is dropped when no recv borrows it
ListenerDrop(t, c) ==
    /\ pc[t] = "idle"
    /\ IsBound(app_listeners[c])
    /\ Receiving(c) = {}
    /\ LET r == app_unbind(app_listeners, c)
       IN  /\ app_listeners' = r.a
           /\ Finish(t, [IdleLoc EXCEPT !.op = "unbind", !.res = r.res,
                                        !.cookie = Some(c)])
    /\ UNCHANGED <<inner, stack, app_receive_wakers, packets, message,
                   msgbuf, chan, req, calls>>

(***************************************************************************)
(* Router::app_recv_message (router.rs:536-619), called by                 *)
(* RouterAsyncListener::recv (router.rs:878-900) and                       *)
(* RouterAsyncReqChannel::recv (router.rs:792-808)                         *)
(***************************************************************************)
\* the buffers an application receives into, in bytes
BufLens == {1}

CallListenerRecv(t, c, n) ==
    /\ pc[t] = "idle"
    /\ IsBound(app_listeners[c])
    /\ Receiving(c) = {}
    /\ pc' = [pc EXCEPT ![t] = "rcv_poll"]
    /\ loc' = [loc EXCEPT ![t] = [IdleLoc EXCEPT !.op = "lrecv",
                                      !.cookie = Some(c),
                                      !.ltyp = app_listeners[c].typ,
                                      !.buflen = n]]
    /\ UNCHANGED <<inner, stack, app_receive_wakers, app_listeners, packets,
                   message, msgbuf, chan, req, calls>>

\* recv of a request channel: a send must have stored a tag (router.rs:796-800)
CallReqRecv(t, n) ==
    /\ pc[t] = "idle"
    /\ IF req[t].sent_tag = None
       THEN Finish(t, [IdleLoc EXCEPT !.op = "rrecv", !.res = "BadArgument"])
       ELSE /\ pc' = [pc EXCEPT ![t] = "rcv_poll"]
            /\ loc' = [loc EXCEPT ![t] = [IdleLoc EXCEPT !.op = "rrecv",
                            !.sel = Some(<<Unwrap(req[t].sent_tag).tv, req[t].eid>>),
                            !.buflen = n]]
    /\ UNCHANGED <<inner, stack, app_receive_wakers, app_listeners, packets,
                   message, msgbuf, chan, req, calls>>

\* the poll takes the router mutex (router.rs:547-552)
RecvLock(t) ==
    /\ pc[t] = "rcv_poll"
    /\ inner = NoTask
    /\ inner' = t
    /\ pc' = [pc EXCEPT ![t] = "rcv_locked"]
    /\ UNCHANGED <<loc, stack, app_receive_wakers, app_listeners, packets,
                   message, msgbuf, chan, req, calls>>

\* the handle of the caller's message (router.rs:558-567)
recv_handle(s, cookie, sel) ==
    IF cookie # None THEN get_deferred_bycookie(s, Unwrap(cookie))
    ELSE get_deferred(s, Unwrap(sel)[2], Unwrap(sel)[1])

\* a receive-waiter that suspends without its waker
register_forgotten(ws, t) == ws

\* inner.app_receive_wakers.register(cx.waker()) (router.rs:590): far fewer
\* receivers than MAX_RECEIVERS, the registration never overflows
register(ws, t) == ws \cup {t}

\* no message: register the waker and suspend (router.rs:569-595).  For a
\* cookie outside the table (579) or one whose slot is empty (583) the
\* debug build panics at debug_assert!(false), the guard of the router
\* mutex dropped by the unwinding; a build without debug assertions
\* registers nothing and returns Pending
RecvPending(t) ==
    /\ pc[t] = "rcv_locked"
    /\ recv_handle(stack, loc[t].cookie, loc[t].sel) = None
    /\ LET listening == /\ loc[t].cookie # None
                        /\ Unwrap(loc[t].cookie) \in Cookies
                        /\ IsBound(app_listeners[Unwrap(loc[t].cookie)])
       IN  /\ IF loc[t].cookie # None
              THEN /\ app_listeners' =
                          IF listening
                          THEN [app_listeners EXCEPT
                                   ![Unwrap(loc[t].cookie)].waker = t]
                          ELSE app_listeners
                   /\ UNCHANGED app_receive_wakers
              ELSE /\ app_receive_wakers' = register(app_receive_wakers, t)
                   /\ UNCHANGED app_listeners
           /\ IF loc[t].cookie # None /\ ~listening /\ debug_assertions
              THEN /\ pc' = [pc EXCEPT ![t] = "panic"]
                   /\ UNCHANGED loc
              ELSE /\ pc' = [pc EXCEPT ![t] = "rcv_wait"]
                   /\ loc' = [loc EXCEPT ![t].res = "Pending"]
    /\ inner' = NoTask
    /\ UNCHANGED <<stack, packets, message, msgbuf, chan, req, calls>>

\* what the receive resolves to for a message and a buffer (router.rs:605-613)
recv_result(msg, buflen) == IF msg.plen > buflen THEN "NoSpace" ELSE "Ok"

\* a receive that hands a message it could not copy back to the stack
recv_finish_fits(s, h, r) ==
    IF r = "NoSpace" THEN return_handle(s, h) ELSE finished_receive(s, h)

\* the stack after the receive resolved, with the message copied or not:
\* inner.stack.finished_receive(handle) (router.rs:615)
recv_finish(s, h, r) == finished_receive(s, h)

\* a message: copy it out and finish with it (router.rs:597-616)
RecvReady(t) ==
    /\ pc[t] = "rcv_locked"
    /\ recv_handle(stack, loc[t].cookie, loc[t].sel) # None
    /\ LET h == Unwrap(recv_handle(stack, loc[t].cookie, loc[t].sel))
           msg == fetch_message(take_handle(stack, h), h)
           r == recv_result(msg, loc[t].buflen)
           \* RouterAsyncListener::recv got a tag that is not Owned: the
           \* debug build panics at debug_assert!(false), a build without
           \* debug assertions returns InternalError (router.rs:888-889)
           unowned == r = "Ok" /\ loc[t].cookie # None /\ ~msg.to
           l == [loc[t] EXCEPT
                  !.h = h,
                  !.rmsg = IF r = "Ok" THEN msg ELSE NoMsg,
                  !.res = IF unowned THEN "InternalError" ELSE r]
       IN  /\ stack' = recv_finish(take_handle(stack, h), h, r)
           /\ IF unowned /\ debug_assertions
              THEN /\ pc' = [pc EXCEPT ![t] = "panic"]
                   /\ loc' = [loc EXCEPT ![t] = l]
              ELSE Finish(t, l)
    /\ inner' = NoTask
    /\ UNCHANGED <<app_receive_wakers, app_listeners, packets, message,
                   msgbuf, chan, req, calls>>

(***************************************************************************)
(* RouterAsyncReqChannel::send_vectored (router.rs:767-790) and            *)
(* Router::app_send_message (router.rs:624-663)                            *)
(***************************************************************************)
\* the chunk lengths of the messages an application sends: one chunk, two
\* chunks that fill the flatten buffer, two chunks that overflow it
Chunks == {<<MAX_PAYLOAD>>, <<1, MAX_PAYLOAD - 1>>, <<1, MAX_PAYLOAD>>}

\* Router::req (router.rs:678-680), and RouterAsyncRespChannel::req_channel
\* (router.rs:858-860) for the peer of a response channel: a new channel
\* replaces the task's old one
ReqNew(t, eid) ==
    /\ pc[t] = "idle"
    /\ req[t] # ReqChannelNew(eid)
    /\ req' = [req EXCEPT ![t] = ReqChannelNew(eid)]
    /\ UNCHANGED <<pc, loc, inner, stack, app_receive_wakers, app_listeners,
                   packets, message, msgbuf, chan, calls>>

CallReqSend(t, typ, bufs) ==
    /\ pc[t] = "idle"
    /\ pc' = [pc EXCEPT ![t] = "snd_lock"]
    /\ loc' = [loc EXCEPT ![t] = [IdleLoc EXCEPT !.op = "send",
                                      !.ltyp = typ, !.chunks = bufs]]
    /\ UNCHANGED <<inner, stack, app_receive_wakers, app_listeners, packets,
                   message, msgbuf, chan, req, calls>>

\* RouterAsyncRespChannel::send_vectored (router.rs:834-852) on the response
\* channel {eid, tv, typ} that a listener's recv returned: the caller took
\* that result, now or earlier
CallRespSend(t, eid, tv, typ, bufs) ==
    /\ \/ pc[t] = "idle"
       \/ /\ pc[t] = "done" /\ loc[t].op = "lrecv" /\ loc[t].res = "Ok"
          /\ loc[t].rmsg.src = eid /\ loc[t].rmsg.tv = tv
          /\ loc[t].rmsg.typ = typ
    /\ pc' = [pc EXCEPT ![t] = "snd_lock"]
    /\ loc' = [loc EXCEPT ![t] = [IdleLoc EXCEPT !.op = "rsend",
                                      !.ltyp = typ, !.chunks = bufs,
                                      !.sel = Some(<<tv, eid>>)]]
    /\ UNCHANGED <<inner, stack, app_receive_wakers, app_listeners, packets,
                   message, msgbuf, chan, req, calls>>

\* the eid, tag and tag_expires arguments of app_send_message: those of the
\* request channel (router.rs:776-782) or of the response channel, the tag
\* Unowned(tv) and tag_expires false (router.rs:839-846)
send_args(t) ==
    IF loc[t].op = "rsend"
    THEN [eid |-> Unwrap(loc[t].sel)[2],
          tag |-> Some([owner |-> FALSE, tv |-> Unwrap(loc[t].sel)[1]]),
          tag_expires |-> FALSE]
    ELSE [eid |-> req[t].eid, tag |-> req[t].sent_tag,
          tag_expires |-> req[t].tag_expires]

\* self.inner.lock().await (router.rs:634)
SendLock(t) ==
    /\ pc[t] = "snd_lock"
    /\ inner = NoTask
    /\ inner' = t
    /\ pc' = [pc EXCEPT ![t] = "snd_locked"]
    /\ UNCHANGED <<loc, stack, app_receive_wakers, app_listeners, packets,
                   message, msgbuf, chan, req, calls>>

\* app_send_message taking the port id as the lookup gives it
send_port_unchecked(eid) == by_eid(send_lookup(eid)[1], send_lookup(eid)[2])

\* the port of a locally sent message (router.rs:636-644)
send_port(eid) ==
    LET p == by_eid(send_lookup(eid)[1], send_lookup(eid)[2])
    IN  IF p # None /\ Unwrap(p) \in Ports THEN p ELSE None

\* no route or a bad port id: TxFailure (router.rs:636-644)
SendNoPort(t) ==
    /\ pc[t] = "snd_locked"
    /\ send_port(send_args(t).eid) = None
    /\ inner' = NoTask
    /\ Finish(t, [loc[t] EXCEPT !.res = "TxFailure",
                                !.lookup = Some(send_lookup(send_args(t).eid))])
    /\ UNCHANGED <<stack, app_receive_wakers, app_listeners, packets,
                   message, msgbuf, chan, req, calls>>

\* app_send_message keeping the router mutex over send_message
inner_kept(t) == t

\* the owner of the router mutex when send_message is called: it was
\* dropped (router.rs:660)
inner_in_send_message(t) == NoTask

\* start_send, then the router mutex is dropped (router.rs:646-662)
SendStart(t) ==
    /\ pc[t] = "snd_locked"
    /\ send_port(send_args(t).eid) # None
    /\ LET p == Unwrap(send_port(send_args(t).eid))
           r == start_send(stack, send_args(t).eid, loc[t].ltyp,
                           send_args(t).tag, send_args(t).tag_expires, mtu(p))
       IN  /\ stack' = r.s
           /\ IF r.res = "Ok"
              THEN /\ inner' = inner_in_send_message(t)
                   /\ pc' = [pc EXCEPT ![t] =
                                IF Len(loc[t].chunks) = 1 THEN "sm_lock"
                                ELSE "sm_msg_lock"]
                   /\ loc' = [loc EXCEPT ![t].top = p, ![t].frag = r.frag,
                                         ![t].lookup =
                                       Some(send_lookup(send_args(t).eid))]
              ELSE /\ inner' = NoTask
                   /\ Finish(t, [loc[t] EXCEPT !.res = r.res,
                          !.lookup = Some(send_lookup(send_args(t).eid))])
    /\ UNCHANGED <<app_receive_wakers, app_listeners, packets, message,
                   msgbuf, chan, req, calls>>

(***************************************************************************)
(* PortTop::send_message (router.rs:151-196)                               *)
(***************************************************************************)
RECURSIVE SumTo(_, _)
\* the bytes of the first n chunks
SumTo(bufs, n) == IF n = 0 THEN 0 ELSE SumTo(bufs, n - 1) + bufs[n]

\* the flatten buffer after msg.clear() and the extend_from_slice calls
\* (router.rs:163-169): an error once a chunk does not fit
flatten(bufs) ==
    LET fit == {n \in 0 .. Len(bufs) : SumTo(bufs, n) <= MAX_PAYLOAD}
        n == CHOOSE k \in fit : \A j \in 0 .. k : j \in fit /\
                 (k = Len(bufs) \/ (k + 1) \notin fit)
    IN  [res |-> IF n = Len(bufs) THEN "Ok" ELSE "NoSpace",
         len |-> SumTo(bufs, n)]

\* self.message.lock().await (router.rs:162)
SmMsgLock(t) ==
    /\ pc[t] = "sm_msg_lock"
    /\ message[loc[t].top] = NoTask
    /\ message' = [message EXCEPT ![loc[t].top] = t]
    /\ pc' = [pc EXCEPT ![t] = "sm_flatten"]
    /\ UNCHANGED <<loc, inner, stack, app_receive_wakers, app_listeners,
                   packets, msgbuf, chan, req, calls>>

\* send_message giving the flatten mutex back before the fragment loop
message_released(t) == NoTask

\* the owner of the flatten mutex while the fragment loop runs: the guard
\* msg lives to the end of send_message, payload borrows it (router.rs:157-171)
message_in_loop(t) == t

\* the chunks are concatenated (router.rs:163-170)
SmFlatten(t) ==
    /\ pc[t] = "sm_flatten"
    /\ LET p == loc[t].top
           r == flatten(loc[t].chunks)
       IN  /\ msgbuf' = [msgbuf EXCEPT ![p] = r.len]
           /\ IF r.res = "Ok"
              THEN /\ pc' = [pc EXCEPT ![t] = "sm_lock"]
                   /\ message' = [message EXCEPT ![p] = message_in_loop(t)]
                   /\ UNCHANGED loc
              ELSE /\ message' = [message EXCEPT ![p] = NoTask]
                   /\ Finish(t, [loc[t] EXCEPT !.res = r.res])
    /\ UNCHANGED <<inner, stack, app_receive_wakers, app_listeners, packets,
                   chan, req, calls>>

\* self.packets.lock().await, at the top of every round of the loop
\* (router.rs:174)
SmLock(t) ==
    /\ pc[t] = "sm_lock"
    /\ packets[loc[t].top] = NoTask
    /\ packets' = [packets EXCEPT ![loc[t].top] = t]
    /\ pc' = [pc EXCEPT ![t] = "sm_send"]
    /\ UNCHANGED <<loc, inner, stack, app_receive_wakers, app_listeners,
                   message, msgbuf, chan, req, calls>>

\* the payload send_message fragments (router.rs:158-171)
payload_len(bufs) == SumTo(bufs, Len(bufs))

\* sender.send().await returned a slot; the fragmenter writes a packet
\* into it (router.rs:176-182)
SmPacket(t) ==
    /\ pc[t] = "sm_send"
    /\ SendSlot(chan[loc[t].top]) # None
    /\ LET p == loc[t].top
           i == Unwrap(SendSlot(chan[p]))
           total == payload_len(loc[t].chunks)
           pkt == FragPacket(loc[t].frag, total)
       IN  /\ chan' = [chan EXCEPT ![p].buf[i] =
                          [data |-> pkt, len |-> pkt.len,
                           dest |-> loc[t].frag.dest]]
           /\ loc' = [loc EXCEPT ![t].frag = FragAdvance(@, total)]
    /\ pc' = [pc EXCEPT ![t] = "sm_packet"]
    /\ UNCHANGED <<inner, stack, app_receive_wakers, app_listeners, packets,
                   message, msgbuf, req, calls>>

\* a slot handed out by send() and left as the last round wrote it
slot_untouched(b, f) == b

\* the slot of a round in which the fragmenter wrote no packet: qpkt.len = 0
\* and qpkt.dest = fragmenter.dest() (router.rs:177-178)
slot_reset(b, f) == [b EXCEPT !.len = 0, !.dest = f.dest]

\* sender.send().await returned a slot; the fragmenter reports an error
\* (router.rs:176-179, 188)
SmError(t) ==
    /\ pc[t] = "sm_send"
    /\ SendSlot(chan[loc[t].top]) # None
    /\ LET p == loc[t].top
           i == Unwrap(SendSlot(chan[p]))
       IN  chan' = [chan EXCEPT ![p].buf[i] = slot_reset(@, loc[t].frag)]
    /\ pc' = [pc EXCEPT ![t] = "sm_error"]
    /\ UNCHANGED <<loc, inner, stack, app_receive_wakers, app_listeners,
                   packets, message, msgbuf, req, calls>>

\* send_vectored stores the tag of a send that succeeded (router.rs:786-789)
sent_tag_after(r, res, frag) ==
    IF res = "Ok" THEN [r EXCEPT !.sent_tag =
                            Some([owner |-> frag.owner, tv |-> frag.tv])]
    ELSE r

\* send_message going on without committing the slot
send_done_forgotten(c) == c

\* the queue after the slot of a round is committed: sender.send_done()
\* (router.rs:183, 190)
send_done(c) == SendDone(c)

\* a round of send_message ending with the producer guard still owned
guard_kept(pk, p) == pk

\* the producer mutexes after the guard of a round goes out of scope at the
\* end of the loop body (router.rs:174, 192)
guard_dropped(pk, p) == [pk EXCEPT ![p] = NoTask]

\* sender.send_done(); the producer guard is dropped at the end of the
\* round; after the last packet send_message returns the tag
\* (router.rs:183-187) and after an error the error (router.rs:190-191)
SmSendDone(t) ==
    /\ pc[t] \in {"sm_packet", "sm_error"}
    /\ LET p == loc[t].top
           res == IF pc[t] = "sm_error" THEN "FragError" ELSE "Ok"
       IN  /\ chan' = [chan EXCEPT ![p] = send_done(chan[p])]
           /\ packets' = guard_dropped(packets, p)
           /\ IF pc[t] = "sm_packet" /\ ~loc[t].frag.done
              THEN /\ pc' = [pc EXCEPT ![t] = "sm_lock"]
                   /\ UNCHANGED <<loc, message, req>>
              ELSE /\ message' = [message EXCEPT ![p] =
                                     IF @ = t THEN NoTask ELSE @]
                   /\ req' = [req EXCEPT ![t] =
                                 IF loc[t].op = "send"
                                 THEN sent_tag_after(@, res, loc[t].frag)
                                 ELSE @]
                   /\ Finish(t, [loc[t] EXCEPT !.res = res])
    /\ UNCHANGED <<inner, stack, app_receive_wakers, app_listeners, msgbuf,
                   calls>>

(***************************************************************************)
(* RouterAsyncReqChannel::tag_noexpire (router.rs:727-733), async_drop     *)
(* (router.rs:739-745) and Router::app_release_tag (router.rs:668-675)     *)
(***************************************************************************)
\* tag_noexpire setting the flag whatever was sent
tag_noexpire_always(r) == [res |-> "Ok", r |-> [r EXCEPT !.tag_expires = FALSE]]

\* the result of tag_noexpire and the channel after it
tag_noexpire(r) ==
    IF r.sent_tag # None THEN [res |-> "BadArgument", r |-> r]
    ELSE [res |-> "Ok", r |-> [r EXCEPT !.tag_expires = FALSE]]

TagNoExpire(t) ==
    /\ pc[t] = "idle"
    /\ LET r == tag_noexpire(req[t])
       IN  /\ req' = [req EXCEPT ![t] = r.r]
           /\ Finish(t, [IdleLoc EXCEPT !.op = "tag_noexpire",
                                        !.res = r.res])
    /\ UNCHANGED <<inner, stack, app_receive_wakers, app_listeners, packets,
                   message, msgbuf, chan, calls>>

\* the tag async_drop releases, if any (router.rs:740-744)
release_tag(r) ==
    IF ~r.tag_expires /\ r.sent_tag # None THEN r.sent_tag ELSE None

\* async_drop consumes the channel; the task has a new one from Router::req
\* afterwards
CallAsyncDrop(t) ==
    /\ pc[t] = "idle"
    /\ IF release_tag(req[t]) = None
       THEN /\ Finish(t, [IdleLoc EXCEPT !.op = "async_drop",
                                         !.res = "nothing"])
            /\ req' = [req EXCEPT ![t] = ReqChannelNew(@.eid)]
       ELSE /\ pc' = [pc EXCEPT ![t] = "rel_lock"]
            /\ loc' = [loc EXCEPT ![t] = [IdleLoc EXCEPT !.op = "async_drop",
                           !.sel = Some(<<Unwrap(release_tag(req[t])).tv,
                                          req[t].eid>>)]]
            /\ UNCHANGED req
    /\ UNCHANGED <<inner, stack, app_receive_wakers, app_listeners, packets,
                   message, msgbuf, chan, calls>>

\* self.inner.lock().await (router.rs:670)
RelLock(t) ==
    /\ pc[t] = "rel_lock"
    /\ inner = NoTask
    /\ inner' = t
    /\ pc' = [pc EXCEPT ![t] = "rel_locked"]
    /\ UNCHANGED <<loc, stack, app_receive_wakers, app_listeners, packets,
                   message, msgbuf, chan, req, calls>>

\* stack.cancel_flow(eid, tv); an error is only logged (router.rs:672-674)
RelCancel(t) ==
    /\ pc[t] = "rel_locked"
    /\ LET r == cancel_flow(stack, Unwrap(loc[t].sel)[2],
                            Unwrap(loc[t].sel)[1])
       IN  /\ stack' = r.s
           /\ Finish(t, [loc[t] EXCEPT !.res = r.res])
    /\ inner' = NoTask
    /\ req' = [req EXCEPT ![t] = ReqChannelNew(@.eid)]
    /\ UNCHANGED <<app_receive_wakers, app_listeners, packets, message,
                   msgbuf, chan, calls>>

(***************************************************************************)
(* PortBottom (router.rs:208-240): the transport driver of a port          *)
(***************************************************************************)
\* the newest committed packet instead of the oldest
outbound_newest(c) ==
    IF ReceiveSlot(c) = None THEN None
    ELSE Some(PktBufView(c.buf[(c.back + FORWARD_QUEUE - 1) % FORWARD_QUEUE]))

\* outbound / try_outbound: the packet and destination peeked, if any
outbound(c) ==
    IF ReceiveSlot(c) = None THEN None
    ELSE Some(PktBufView(c.buf[Unwrap(ReceiveSlot(c))]))

\* the consumer of port 0 peeks: outbound() once a packet is there,
\* try_outbound() when one is there (router.rs:215-234); the borrow of the
\* last peek ends with the next call
Outbound(t) ==
    /\ pc[t] \in {"idle", "peeked"}
    /\ outbound(chan[0]) # None
    /\ pc' = [pc EXCEPT ![t] = "peeked"]
    /\ loc' = [loc EXCEPT ![t] = [IdleLoc EXCEPT !.op = "outbound",
                                      !.peek = outbound(chan[0])]]
    /\ UNCHANGED <<inner, stack, app_receive_wakers, app_listeners, packets,
                   message, msgbuf, chan, req, calls>>

\* the consumer of port 0 calls outbound_done after it peeked
\* (router.rs:237-239)
OutboundDoneBy(t) ==
    /\ pc[t] = "peeked"
    /\ chan' = [chan EXCEPT ![0] = ReceiveDone(chan[0])]
    /\ pc' = [pc EXCEPT ![t] = "idle"]
    /\ loc' = [loc EXCEPT ![t] = IdleLoc]
    /\ UNCHANGED <<inner, stack, app_receive_wakers, app_listeners, packets,
                   message, msgbuf, req, calls>>

\* outbound_done, after a packet was peeked
OutboundDone(p) ==
    /\ outbound(chan[p]) # None
    /\ chan' = [chan EXCEPT ![p] = ReceiveDone(chan[p])]
    /\ UNCHANGED <<pc, loc, inner, stack, app_receive_wakers, app_listeners,
                   packets, message, msgbuf, req, calls>>

(***************************************************************************)
(* Specifications.  A driver task feeds inbound, an application task binds *)
(* listeners, sends and receives, and a transport driver drains each port. *)
(* Each specification gives the tasks the inputs of one part of the router. *)
(***************************************************************************)

\* Spec: inbound with every kind of packet, and a listener that receives
Next ==
    \/ \E t \in Drivers :
          \/ \E pkt \in {BadPkt} \cup FragPkts \cup
                         {q \in ReqPkts \cup RespPkts :
                             q.typ \in BindTypes /\ q.src = Eid.peer} :
                CallInbound(t, pkt, 0)
          \/ \E pkt \in PeerPkts, port \in Ports : CallInbound(t, pkt, port)
          \/ CallInbound(t, BadPortPkt, 0)
          \/ InbLock(t)
          \/ InbBadHeader(t)
          \/ InbLocal(t)
          \/ InbNoRoute(t)
          \/ InbRoute(t)
          \/ FwdLock(t)
          \/ FwdDrop(t)
          \/ FwdSet(t)
          \/ FwdSendDone(t)
          \/ IncomingLock(t)
          \/ IncomingListener(t)
          \/ IncomingResponse(t)
          \/ Return(t)
    \/ \E t \in FirstApp :
          \/ ListenerNew(t, 1)
          \/ \E c \in Cookies : ListenerDrop(t, c)
          \/ \E c \in Cookies, n \in BufLens : CallListenerRecv(t, c, n)
          \/ RecvLock(t)
          \/ RecvPending(t)
          \/ RecvReady(t)
          \/ Return(t)
    \/ OutboundDone(0)

Spec == Init /\ [][Next]_vars

\* SpecDemux: local messages, listeners and a request channel
NextDemux ==
    \/ \E t \in Drivers :
          \/ \E pkt \in {q \in ReqPkts \cup RespPkts : q.typ \in BindTypes} :
                CallInbound(t, pkt, 0)
          \/ InbLock(t)
          \/ InbLocal(t)
          \/ IncomingLock(t)
          \/ IncomingListener(t)
          \/ IncomingResponse(t)
          \/ Return(t)
    \/ \E t \in FirstApp :
          \/ \E typ \in BindTypes : ListenerNew(t, typ)
          \/ \E c \in Cookies : ListenerDrop(t, c)
          \/ \E c \in Cookies, n \in BufLens : CallListenerRecv(t, c, n)
          \/ \E n \in BufLens : CallReqRecv(t, n)
          \/ RecvLock(t)
          \/ RecvPending(t)
          \/ RecvReady(t)
          \/ CallReqSend(t, 1, <<1>>)
          \/ SendLock(t)
          \/ SendStart(t)
          \/ SmLock(t)
          \/ SmPacket(t)
          \/ SmError(t)
          \/ SmSendDone(t)
          \/ Return(t)
    \/ OutboundDone(0)

SpecDemux == Init /\ [][NextDemux]_vars

\* SpecPort: forwarded packets and sent messages meet on the queue of port 0
NextPort ==
    \/ \E t \in Drivers :
          \/ \E pkt \in PeerPkts \cup {BadPortPkt}, port \in Ports :
                CallInbound(t, pkt, port)
          \/ InbLock(t)
          \/ InbNoRoute(t)
          \/ InbRoute(t)
          \/ FwdLock(t)
          \/ FwdDrop(t)
          \/ FwdSet(t)
          \/ FwdSendDone(t)
          \/ Return(t)
    \/ \E t \in FirstApp :
          \/ \E bufs \in Chunks : CallReqSend(t, 1, bufs)
          \/ SendLock(t)
          \/ SendStart(t)
          \/ SmMsgLock(t)
          \/ SmFlatten(t)
          \/ SmLock(t)
          \/ SmPacket(t)
          \/ SmError(t)
          \/ SmSendDone(t)
          \/ Return(t)
    \/ OutboundDone(0)

SpecPort == Init /\ [][NextPort]_vars

(***************************************************************************)
(* SpecListen: one listener that stays bound and keeps receiving, and may   *)
(* answer a request on the response channel its recv returned, while the   *)
(* driver delivers requests of its type and of another type and the        *)
(* consumer of port 0 takes the responses.  A call                         *)
(* that started goes on: the executor polls a task that is ready, and a    *)
(* task that waits for the router mutex gets it in the end, the mutex      *)
(* being held only over sections that do not suspend.  The stack hands out *)
(* the deferred message of the lowest slot and fills the lowest free slot, *)
(* so a message that arrives later can be handed out first.                *)
(***************************************************************************)
ListenPkts == {q \in ReqPkts : q.typ \in BindTypes}

DriverListen(t) ==
    \/ InbLock(t)
    \/ InbLocal(t)
    \/ IncomingLock(t)
    \/ IncomingListener(t)

AppListen(t) ==
    \/ (\A c \in Cookies : ~IsBound(app_listeners[c])) /\ ListenerNew(t, 1)
    \/ \E c \in Cookies, n \in BufLens : CallListenerRecv(t, c, n)
    \/ RecvPending(t)
    \/ RecvReady(t)
    \/ pc[t] = "done" /\ CallRespSend(t, loc[t].rmsg.src, loc[t].rmsg.tv,
                                        loc[t].rmsg.typ, <<1>>)
    \/ SendStart(t)
    \/ SmPacket(t)
    \/ SmSendDone(t)
    \/ Return(t)

NextListen ==
    \/ \E t \in Drivers :
          \/ \E pkt \in ListenPkts : CallInbound(t, pkt, 0)
          \/ DriverListen(t)
          \/ Return(t)
    \/ \E t \in FirstApp :
          \/ AppListen(t)
          \/ RecvLock(t)
          \/ SendLock(t)
          \/ SmLock(t)
    \/ OutboundDone(0)

SpecListen ==
    /\ Init /\ [][NextListen]_vars
    /\ \A t \in Drivers : WF_vars(DriverListen(t))
    /\ \A t \in FirstApp :
           /\ WF_vars(AppListen(t))
           /\ SF_vars(RecvLock(t)) /\ SF_vars(SendLock(t))
           /\ SF_vars(SmLock(t))
    /\ WF_vars(OutboundDone(0))

(***************************************************************************)
(* SpecResp: two applications, each with a request channel of its own      *)
(* (one to the peer, one to the far endpoint), send a request and receive, *)
(* while the driver delivers the responses of the endpoints to the         *)
(* requests that are outstanding.  A channel sends one request of one      *)
(* packet, which its port queue has room for, so the consumers of the      *)
(* ports have no part.  Fairness as in SpecListen.                         *)
(***************************************************************************)
\* a response to a request whose flow the stack still has
Outstanding(pkt) ==
    \E f \in stack.flows : f.eid = pkt.src /\ f.tv = pkt.tv

DriverResp(t) ==
    \/ InbLock(t)
    \/ InbLocal(t)
    \/ IncomingLock(t)
    \/ IncomingResponse(t)

AppResp(t) ==
    \/ CallReqSend(t, 1, <<1>>)
    \/ SendLock(t)
    \/ SendStart(t)
    \/ SmLock(t)
    \/ SmPacket(t)
    \/ SmSendDone(t)
    \/ \E n \in BufLens : CallReqRecv(t, n)
    \/ RecvPending(t)
    \/ RecvReady(t)
    \/ Return(t)

NextResp ==
    \/ \E t \in Drivers :
          \/ \E pkt \in RespPkts : Outstanding(pkt) /\ CallInbound(t, pkt, 0)
          \/ DriverResp(t)
          \/ Return(t)
    \/ \E t \in Apps :
          \/ AppResp(t)
          \/ RecvLock(t)

SpecResp ==
    /\ Init /\ [][NextResp]_vars
    /\ \A t \in Drivers : WF_vars(DriverResp(t))
    /\ \A t \in Apps : WF_vars(AppResp(t)) /\ SF_vars(RecvLock(t))

(***************************************************************************)
(* SpecTime: an application sends a request on its channel and receives,   *)
(* while update_time is called again and again ("called periodically",     *)
(* router.rs:368) and finds the flow expired at some tick.  No response    *)
(* arrives, so a suspended recv is woken by update_time only.              *)
(***************************************************************************)
TimerStep(t) ==
    \/ CallUpdateTime(t)
    \/ UtLock(t)
    \/ UtUpdate(t)
    \/ Return(t)

\* send_vectored and recv; no message is ever there to be taken
AppTime(t) ==
    \/ CallReqSend(t, 1, <<1>>)
    \/ SendLock(t)
    \/ SendStart(t)
    \/ SmLock(t)
    \/ SmPacket(t)
    \/ SmSendDone(t)
    \/ \E n \in BufLens : CallReqRecv(t, n)
    \/ RecvPending(t)
    \/ Return(t)

NextTime ==
    \/ \E t \in Drivers : TimerStep(t)
    \/ \E t \in FirstApp :
          \/ AppTime(t)
          \/ RecvLock(t)
    \/ OutboundDone(0)

SpecTime ==
    /\ Init /\ [][NextTime]_vars
    /\ \A t \in Drivers : WF_vars(TimerStep(t))
    /\ \A t \in FirstApp : WF_vars(AppTime(t)) /\ SF_vars(RecvLock(t))

(***************************************************************************)
(* SpecFlow: the life of a request channel: tag_noexpire, send_vectored    *)
(* with a message of one packet and with chunks that overflow the flatten  *)
(* buffer, recv, async_drop.                                               *)
(***************************************************************************)
FlowChunks == {<<1>>} \cup {c \in Chunks : flatten(c).res # "Ok"}

NextFlow ==
    \/ \E t \in FirstApp :
          \/ TagNoExpire(t)
          \/ \E bufs \in FlowChunks : CallReqSend(t, 1, bufs)
          \/ SendLock(t)
          \/ SendStart(t)
          \/ SmMsgLock(t)
          \/ SmFlatten(t)
          \/ SmLock(t)
          \/ SmPacket(t)
          \/ SmError(t)
          \/ SmSendDone(t)
          \/ \E n \in BufLens : CallReqRecv(t, n)
          \/ RecvLock(t)
          \/ RecvPending(t)
          \/ CallAsyncDrop(t)
          \/ RelLock(t)
          \/ RelCancel(t)
          \/ Return(t)
    \/ OutboundDone(0)

SpecFlow == Init /\ [][NextFlow]_vars

(***************************************************************************)
(* SpecRoute: the routing callback.  inbound gets packets for this         *)
(* endpoint (whole, in fragments, fragments that fit no reassembly) and    *)
(* for others, on every port; the application sends on channels to         *)
(* endpoints with a route, without one and with a route to a missing port. *)
(***************************************************************************)
RoutePkts ==
    {BadPkt, BadPortPkt} \cup FragPkts \cup
    {q \in PeerPkts : q.len <= MAX_MTU}

NextRoute ==
    \/ \E t \in Drivers :
          \/ \E pkt \in RoutePkts, port \in Ports : CallInbound(t, pkt, port)
          \/ \E eid \in {Eid.local, Eid.alt} : CallSetEid(t, eid)
          \/ SeLock(t)
          \/ SetEid(t)
          \/ InbLock(t)
          \/ InbBadHeader(t)
          \/ InbLocal(t)
          \/ InbNoRoute(t)
          \/ InbRoute(t)
          \/ FwdLock(t)
          \/ FwdDrop(t)
          \/ FwdSet(t)
          \/ FwdSendDone(t)
          \/ IncomingLock(t)
          \/ IncomingListener(t)
          \/ Return(t)
    \/ \E t \in FirstApp :
          \/ \E eid \in {Eid.peer, Eid.noroute, Eid.badport} : ReqNew(t, eid)
          \/ CallReqSend(t, 1, <<1>>)
          \/ SendLock(t)
          \/ SendNoPort(t)
          \/ SendStart(t)
          \/ SmLock(t)
          \/ SmPacket(t)
          \/ SmSendDone(t)
          \/ Return(t)
    \/ OutboundDone(0)

SpecRoute == Init /\ [][NextRoute]_vars

(***************************************************************************)
(* SpecDrain: SpecPort with the consumer of port 0 as a task that peeks    *)
(* and consumes while forwards and sends fill the queue.                   *)
(***************************************************************************)
NextDrain ==
    \/ \E t \in Drivers :
          \/ \E pkt \in PeerPkts : CallInbound(t, pkt, 1)
          \/ InbLock(t)
          \/ InbRoute(t)
          \/ FwdLock(t)
          \/ FwdDrop(t)
          \/ FwdSet(t)
          \/ FwdSendDone(t)
          \/ Return(t)
    \/ \E t \in FirstApp :
          \/ \E bufs \in Chunks : CallReqSend(t, 1, bufs)
          \/ SendLock(t)
          \/ SendStart(t)
          \/ SmMsgLock(t)
          \/ SmFlatten(t)
          \/ SmLock(t)
          \/ SmPacket(t)
          \/ SmError(t)
          \/ SmSendDone(t)
          \/ Return(t)
    \/ \E t \in Consumers :
          \/ Outbound(t)
          \/ OutboundDoneBy(t)

SpecDrain == Init /\ [][NextDrain]_vars

(***************************************************************************)
(* SpecLocks: SpecPort with a second application that sends to the far     *)
(* endpoint, behind the other port, and with update_time.  Port 0 is       *)
(* drained, the other port is not.                                         *)
(***************************************************************************)
NextLocks ==
    \/ \E t \in Drivers :
          \/ \E pkt \in {q \in PeerPkts : q.len <= MAX_MTU} :
                CallInbound(t, pkt, 1)
          \/ InbLock(t)
          \/ InbRoute(t)
          \/ FwdLock(t)
          \/ FwdDrop(t)
          \/ FwdSet(t)
          \/ FwdSendDone(t)
          \/ TimerStep(t)
    \/ \E t \in Apps :
          \/ \E bufs \in {c \in Chunks : /\ flatten(c).res = "Ok"
                                         /\ t \in FirstApp \/ Len(c) = 1} :
                CallReqSend(t, 1, bufs)
          \/ SendLock(t)
          \/ SendStart(t)
          \/ SmMsgLock(t)
          \/ SmFlatten(t)
          \/ SmLock(t)
          \/ SmPacket(t)
          \/ SmSendDone(t)
          \/ Return(t)
    \/ OutboundDone(0)

SpecLocks == Init /\ [][NextLocks]_vars

(***************************************************************************)
(* SpecProd: the producers of port 0 under fair scheduling.  The           *)
(* application sends messages of several packets, inbound forwards packets *)
(* that arrive on the other port, the consumer keeps draining.  A task     *)
(* that is ready runs, and a task that asks for a mutex again and again    *)
(* while it is free again and again gets it.                               *)
(***************************************************************************)
DriverProd(t) ==
    \/ \E pkt \in {q \in PeerPkts : q.len <= MAX_MTU} : CallInbound(t, pkt, 1)
    \/ InbRoute(t)
    \/ FwdDrop(t)
    \/ FwdSet(t)
    \/ FwdSendDone(t)
    \/ Return(t)

AppProd(t) ==
    \/ \E bufs \in {c \in Chunks : flatten(c).res = "Ok"} :
          CallReqSend(t, 1, bufs)
    \/ SendStart(t)
    \/ SmFlatten(t)
    \/ SmPacket(t)
    \/ SmSendDone(t)
    \/ Return(t)

NextProd ==
    \/ \E t \in Drivers : DriverProd(t) \/ InbLock(t) \/ FwdLock(t)
    \/ \E t \in FirstApp :
          AppProd(t) \/ SendLock(t) \/ SmMsgLock(t) \/ SmLock(t)
    \/ OutboundDone(0)

SpecProd ==
    /\ Init /\ [][NextProd]_vars
    /\ \A t \in Drivers :
           WF_vars(DriverProd(t)) /\ SF_vars(InbLock(t)) /\ SF_vars(FwdLock(t))
    /\ \A t \in FirstApp :
           /\ WF_vars(AppProd(t))
           /\ SF_vars(SendLock(t)) /\ SF_vars(SmMsgLock(t))
           /\ SF_vars(SmLock(t))
    /\ WF_vars(OutboundDone(0))

(***************************************************************************)
(* SpecBind: app_bind and app_unbind called with any type and any cookie,  *)
(* each call recorded with the table it found.                             *)
(***************************************************************************)
Record(call) == IF calls = <<>> THEN <<call>> ELSE <<calls[Len(calls)], call>>

BindCall(typ) ==
    /\ LET r == app_bind(app_listeners, typ)
       IN  /\ app_listeners' = r.a
           /\ calls' = Record([op |-> "bind", arg |-> typ, res |-> r.res,
                               cookie |-> r.cookie, before |-> app_listeners])
    /\ UNCHANGED <<pc, loc, inner, stack, app_receive_wakers, packets,
                   message, msgbuf, chan, req>>

UnbindCall(cookie) ==
    /\ LET r == app_unbind(app_listeners, cookie)
       IN  /\ app_listeners' = r.a
           /\ calls' = Record([op |-> "unbind", arg |-> cookie,
                               res |-> r.res, cookie |-> None,
                               before |-> app_listeners])
    /\ UNCHANGED <<pc, loc, inner, stack, app_receive_wakers, packets,
                   message, msgbuf, chan, req>>

NextBind ==
    \/ \E typ \in MsgTypes : BindCall(typ)
    \/ \E cookie \in 0 .. MAX_LISTENERS : UnbindCall(cookie)

SpecBind == Init /\ [][NextBind]_vars

(***************************************************************************)
(* Properties of the listener table, under SpecBind                        *)
(***************************************************************************)
LastCall == calls[Len(calls)]
Bound(a) == {c \in Cookies : IsBound(a[c])}

\* C7: in every reachable listener table each message type occupies at most
\* one non-empty slot.
C7_OneSlotPerType ==
    \A c1 \in Cookies, c2 \in Cookies :
        (IsBound(app_listeners[c1]) /\ IsBound(app_listeners[c2])
         /\ app_listeners[c1].typ = app_listeners[c2].typ) => c1 = c2

\* C7 witness: the table is full and the last call tried to bind a type a
\* slot already carries.
C7_Witness ==
    /\ calls # <<>>
    /\ Bound(app_listeners) = Cookies
    /\ LastCall.op = "bind"
    /\ \E c \in Cookies : app_listeners[c].typ = LastCall.arg
    /\ LastCall.res = "AddrInUse"

\* C8: app_bind(typ) answers AddrInUse when an occupied slot carries typ
\* (also in a full table), NoSpace when typ is not bound and every slot is
\* occupied, and otherwise occupies the lowest free slot and returns its
\* index; on AddrInUse and NoSpace the table is unchanged.
C8_BindResult ==
    (calls # <<>> /\ LastCall.op = "bind") =>
        LET b == LastCall.before
            typ == LastCall.arg
        IN  IF \E c \in Bound(b) : b[c].typ = typ
            THEN /\ LastCall.res = "AddrInUse"
                 /\ LastCall.cookie = None
                 /\ app_listeners = b
            ELSE IF Bound(b) = Cookies
            THEN /\ LastCall.res = "NoSpace"
                 /\ LastCall.cookie = None
                 /\ app_listeners = b
            ELSE /\ LastCall.res = "Ok"
                 /\ LastCall.cookie # None
                 /\ Unwrap(LastCall.cookie) \in Cookies \ Bound(b)
                 /\ \A c \in Cookies \ Bound(b) : Unwrap(LastCall.cookie) <= c
                 /\ app_listeners =
                        [b EXCEPT ![Unwrap(LastCall.cookie)] =
                            [typ |-> typ, waker |-> NoTask]]

\* C8 witness: a bind of a bound type was refused in a full table, after a
\* bind that took a slot other than the first.
C8_Witness ==
    /\ Len(calls) = 2
    /\ calls[1].op = "bind" /\ calls[1].res = "Ok"
    /\ calls[1].cookie = Some(MAX_LISTENERS - 1)
    /\ calls[2].op = "bind" /\ calls[2].res = "AddrInUse"
    /\ Bound(calls[2].before) = Cookies

\* C9: after a bind that returned cookie c, app_unbind(c) returns Ok and
\* leaves the table as it was before the bind; app_unbind of a cookie out of
\* range or of an empty slot (a second unbind) returns BadArgument and
\* changes nothing.
C9_BindUnbind ==
    /\ (Len(calls) = 2 /\ calls[1].op = "bind" /\ calls[1].res = "Ok"
        /\ calls[2].op = "unbind" /\ Some(calls[2].arg) = calls[1].cookie)
         => (calls[2].res = "Ok" /\ app_listeners = calls[1].before)
    /\ (calls # <<>> /\ LastCall.op = "unbind"
        /\ (LastCall.arg \notin Cookies \/ ~IsBound(LastCall.before[LastCall.arg])))
         => (LastCall.res = "BadArgument" /\ app_listeners = LastCall.before)

\* C9 witness: a listener was bound beside another one and unbound again.
C9_Witness ==
    /\ Len(calls) = 2
    /\ calls[1].op = "bind" /\ calls[1].res = "Ok"
    /\ calls[2].op = "unbind" /\ Some(calls[2].arg) = calls[1].cookie
    /\ Bound(app_listeners) # {}

\* C9 witness of the refusals: an unbind of the same cookie twice.
C9_WitnessTwice ==
    /\ Len(calls) = 2
    /\ calls[1].op = "unbind" /\ calls[1].res = "Ok"
    /\ calls[2].op = "unbind" /\ calls[2].arg = calls[1].arg
    /\ calls[2].res = "BadArgument"

(***************************************************************************)
(* Properties of inbound, under Spec                                       *)
(***************************************************************************)
Returned(t, op) == pc[t] = "done" /\ loc[t].op = op

\* C1: inbound returns None exactly when the header of the packet does not
\* parse, and otherwise Some(source EID) in every branch: handled locally
\* (complete, partial, reassembly error), no route, port id outside the
\* ports slice, forwarded, dropped by forward_packet; and it never panics.
C1_InboundReturns ==
    \A t \in Tasks :
        /\ pc[t] # "panic"
        /\ Returned(t, "inbound") =>
               /\ loc[t].ret = None <=> header(loc[t].pkt) = None
               /\ header(loc[t].pkt) # None =>
                      loc[t].ret = Some(loc[t].pkt.src)

\* C1 witness: inbound returned the source EID of a packet that
\* forward_packet dropped on a full queue.
C1_Witness ==
    \E t \in Tasks : /\ Returned(t, "inbound")
                     /\ loc[t].fres = "TxFailure"
                     /\ loc[t].ret = Some(Eid.far)

(***************************************************************************)
(* Properties of the demultiplexer, under SpecDemux                        *)
(***************************************************************************)
\* the listener part of C2
C2_ListenerPart ==
    \A t \in Tasks :
        (Returned(t, "lrecv") /\ loc[t].res = "Ok") =>
            loc[t].rmsg.typ = loc[t].ltyp

\* the request channel part of C2
C2_RequestPart ==
    \A t \in Tasks :
        (Returned(t, "rrecv") /\ loc[t].res = "Ok") =>
            /\ ~loc[t].rmsg.to
            /\ loc[t].rmsg.tv = Unwrap(loc[t].sel)[1]
            /\ loc[t].rmsg.src = Unwrap(loc[t].sel)[2]

\* C2: app_recv_message never resolves with a mismatching message: a
\* listener bound to type T receives only messages of type T, also in a
\* slot whose earlier listener was dropped with a message still deferred;
\* a request channel receives only a message with its tag and source EID.
C2_RecvMatches == C2_ListenerPart /\ C2_RequestPart

(***************************************************************************)
(* Properties of the port queue, under SpecPort                            *)
(***************************************************************************)
\* the slot committed last, and the one before it
LastCommitted(c) == c.buf[(c.back + FORWARD_QUEUE - 1) % FORWARD_QUEUE]
CommittedBefore(c) == c.buf[(c.back + 2 * FORWARD_QUEUE - 2) % FORWARD_QUEUE]

\* tasks inside the fragment loop of send_message, and the packets of the
\* message they committed so far
InLoop(t) == pc[t] \in {"sm_lock", "sm_send", "sm_packet", "sm_error"}
Committed(t) == IF pc[t] = "sm_packet" THEN loc[t].frag.seq - 1
                ELSE loc[t].frag.seq

\* packet k of the message of fragmenter f, as far as its header tells
IsFragment(b, f, k) ==
    /\ b.len > 0
    /\ b.data.src = f.src
    /\ b.data.dest = f.dest
    /\ b.dest = f.dest
    /\ b.data.tv = f.tv
    /\ b.data.seq = k
    /\ b.data.som = (k = 0)

\* C3: the fragments of one send_message are observed in the order they
\* were generated and contiguously: while a message is under way, the
\* packet committed last on the port is the fragment it generated last.
C3_Contiguous ==
    \A t \in Tasks :
        (InLoop(t) /\ Committed(t) >= 1) =>
            IsFragment(LastCommitted(chan[loc[t].top]), loc[t].frag,
                       Committed(t) - 1)

\* C3 as amended: every commit of send_message appends the fragment just
\* generated, the k-th commit fragment k, to the end of what the consumer
\* observes.
C3_InOrder ==
    [][\A t \in Tasks :
          (pc[t] = "sm_packet" /\ pc'[t] # "sm_packet") =>
              LET p == loc[t].top
                  V == Visible(chan[p])
                  W == Visible(chan'[p])
              IN  /\ Len(W) = Len(V) + 1
                  /\ \A i \in 1 .. Len(V) : W[i] = V[i]
                  /\ IsFragment(W[Len(W)], loc[t].frag, loc[t].frag.seq - 1)
                  /\ W[Len(W)].data.eom = loc[t].frag.done]_vars

\* C3 witness: a message of two fragments was sent, and a forwarded packet
\* was committed between the two.
C3_Witness ==
    \E t \in Tasks :
        /\ Returned(t, "send") /\ loc[t].res = "Ok"
        /\ loc[t].frag.seq = 2
        /\ IsFragment(LastCommitted(chan[loc[t].top]), loc[t].frag, 1)
        /\ CommittedBefore(chan[loc[t].top]).data.src = Eid.far

\* a task takes the step that ends state `from` of its call
Leaves(t, from) == pc[t] = from /\ pc'[t] # from

\* the consumer's view of a packet
ViewOf(pkt) == [data |-> pkt, len |-> pkt.len, dest |-> pkt.dest]

\* C4: forward_packet has exactly two outcomes: the complete packet is
\* observable at the consumer, or it is dropped with TxFailure.
C4_TwoOutcomes ==
    \A t \in Tasks :
        (Returned(t, "inbound") /\ loc[t].fres # "") =>
            loc[t].fres \in {"Ok", "TxFailure"}

\* C4 as amended: forward_packet has three outcomes.  The complete packet,
\* with its length and the destination of its header, is appended to what
\* the consumer observes; or it is dropped with TxFailure on a full queue;
\* or it is dropped with NoSpace when it is longer than the port's mtu.  A
\* dropped packet leaves the queue unchanged, a slot written but not
\* committed is not observable, and the consumer's view only grows at its
\* end by a committed packet and shrinks at its head.
C4_ForwardOutcome ==
    [][\A t \in Tasks :
          LET p == loc[t].top
              V == Visible(chan[p])
              W == Visible(chan'[p])
          IN  /\ (Leaves(t, "fwd_set")) =>
                     /\ pc'[t] = "done" /\ loc'[t].fres = "Ok"
                     /\ W = Append(V, ViewOf(loc[t].pkt))
              /\ (Leaves(t, "fwd_locked") /\ pc'[t] = "done") =>
                     /\ loc'[t].fres \in {"TxFailure", "NoSpace"}
                     /\ loc'[t].fres = "NoSpace" <=> loc[t].pkt.len > mtu(p)
                     /\ loc'[t].fres = "TxFailure" => chan[p].full
                     /\ chan' = chan
              /\ (Leaves(t, "fwd_locked") /\ pc'[t] # "done") =>
                     /\ pc'[t] = "fwd_set"
                     /\ \A q \in Ports : Visible(chan'[q]) = Visible(chan[q])
       /\ \A q \in Ports :
             LET Vq == Visible(chan[q])
                 Wq == Visible(chan'[q])
             IN  \/ Wq = Vq
                 \/ Vq # <<>> /\ Wq = Tail(Vq)
                 \/ \E u \in Tasks :
                       /\ loc[u].top = q
                       /\ Leaves(u, "fwd_set") \/ Leaves(u, "sm_packet")
                              \/ Leaves(u, "sm_error")
                       /\ Len(Wq) = Len(Vq) + 1
                       /\ \A i \in 1 .. Len(Vq) : Wq[i] = Vq[i]]_vars

\* C4 witness: a forwarded packet was accepted behind another accepted
\* packet, and both are observable in that order.
C4_Witness ==
    \E t \in Tasks :
        /\ Returned(t, "inbound") /\ loc[t].fres = "Ok"
        /\ LET V == Visible(chan[loc[t].top])
           IN  /\ Len(V) = 2
               /\ V[2] = ViewOf(loc[t].pkt)
               /\ V[1].len > 0

\* C5: forwarding never waits for the consumer of the out-port: no task
\* waits in forward_packet for the producer mutex while its owner is
\* suspended in send_message until the consumer frees a slot.
C5_ForwardNeverWaitsForConsumer ==
    \A t \in Tasks, s \in Tasks :
        ~ /\ pc[t] = "fwd_lock"
          /\ packets[loc[t].top] = s
          /\ pc[s] = "sm_send"
          /\ SendSlot(chan[loc[t].top]) = None

\* a send_message that waits for a free slot of the queue
AwaitsSlot(t) ==
    /\ pc[t] = "sm_send"
    /\ SendSlot(chan[loc[t].top]) = None

\* C6: with FORWARD_QUEUE packets queued on the out-port and nobody draining
\* it, every further forward-bound packet is dropped and inbound returns
\* Some(src): no call of inbound is held in forward_packet before the full
\* queue, behind a producer mutex whose owner waits for a slot that only
\* the consumer can free.
C6_FullDropsEveryPacket ==
    \A t \in Drivers :
        (/\ loc[t].op = "inbound" /\ pc[t] = "fwd_lock"
         /\ Len(Visible(chan[loc[t].top])) = FORWARD_QUEUE) =>
            \/ packets[loc[t].top] = NoTask
            \/ ~AwaitsSlot(packets[loc[t].top])

(***************************************************************************)
(* Locks                                                                   *)
(***************************************************************************)
\* the locks a task owns
Held(t) ==
    (IF inner = t THEN {<<"inner", 0>>} ELSE {})
    \cup {<<"packets", p>> : p \in {q \in Ports : packets[q] = t}}
    \cup {<<"message", p>> : p \in {q \in Ports : message[q] = t}}

Owner(l) == CASE l[1] = "inner" -> inner
              [] l[1] = "packets" -> packets[l[2]]
              [] l[1] = "message" -> message[l[2]]

\* the lock a task is about to take
Wants(t) ==
    CASE pc[t] \in {"inb_lock", "il_lock", "ir_lock", "rcv_poll", "snd_lock",
                    "ut_lock", "se_lock", "rel_lock"}
            -> {<<"inner", 0>>}
      [] pc[t] \in {"fwd_lock", "sm_lock"} -> {<<"packets", loc[t].top>>}
      [] pc[t] = "sm_msg_lock" -> {<<"message", loc[t].top>>}
      [] OTHER -> {}

\* the lock a task is suspended on: one it wants and another task owns
WaitsFor(t) == {l \in Wants(t) : Owner(l) # NoTask}

\* C10: no task holds one lock while it is suspended waiting to acquire a
\* different lock.
C10_NoLockHeldWhileWaiting ==
    \A t \in Tasks : WaitsFor(t) # {} => Held(t) = {}

\* C10 as amended: a task suspended waiting for a lock holds no other
\* lock, except that send_message with more than one chunk holds the
\* port's flatten-buffer mutex while it waits for the producer mutex of
\* the same port; the router mutex is never held by a waiting task.
C10_LockOrder ==
    \A t \in Tasks :
        WaitsFor(t) # {} =>
            \/ Held(t) = {}
            \/ /\ pc[t] = "sm_lock"
               /\ Len(loc[t].chunks) > 1
               /\ Held(t) = {<<"message", loc[t].top>>}
               /\ WaitsFor(t) = {<<"packets", loc[t].top>>}

\* C10 witness: a send of two chunks waits for the producer mutex, which a
\* forward holds, with the flatten-buffer mutex in its hands.
C10_Witness ==
    \E t \in Tasks, s \in Tasks :
        /\ pc[t] = "sm_lock" /\ Len(loc[t].chunks) > 1
        /\ message[loc[t].top] = t
        /\ packets[loc[t].top] = s
        /\ pc[s] \in {"fwd_locked", "fwd_set"}

\* C19: no task holds the router mutex while it holds or waits for a
\* producer mutex, a flatten-buffer mutex or a queue slot: inbound drops it
\* before forward_packet, app_send_message before send_message.  So while
\* a send_message is suspended on a full queue the router mutex is free,
\* or in the hands of a task that is inside a section of inbound,
\* update_time or app_send_message that does not suspend.
C19_RouterMutexAlone ==
    \A t \in Tasks :
        inner = t =>
            /\ Held(t) = {<<"inner", 0>>}
            /\ Wants(t) = {}
            /\ ~AwaitsSlot(t)
            /\ pc[t] \in {"inb_locked", "il_locked", "ir_locked",
                           "rcv_locked", "snd_locked", "ut_locked",
                           "se_locked", "rel_locked"}

\* C19 witness: a send_message is suspended on the full queue of the port
\* that is not drained, with the producer mutex in its hands, while
\* inbound has taken the router mutex.
C19_Witness ==
    \E s \in Apps, t \in Drivers :
        /\ AwaitsSlot(s) /\ packets[loc[s].top] = s
        /\ inner = t /\ pc[t] = "inb_locked"

\* C20: in send_message with more than one chunk the flatten-buffer mutex
\* is held only while the chunks are concatenated and is released before
\* the fragment loop: it is not held while the task acquires the producer
\* mutex, awaits a queue slot or fragments.
C20_FlattenReleased ==
    \A t \in Tasks : InLoop(t) => message[loc[t].top] # t

\* C20 as amended: a send_message with more than one chunk holds the
\* flatten-buffer mutex from before the concatenation to its return, over
\* every round of the fragment loop (producer mutex, queue slot, fragment);
\* a send of one chunk never takes it; when send_message has returned the
\* task holds it no more.
C20_FlattenHeldInLoop ==
    \A t \in Tasks :
        /\ (InLoop(t) \/ pc[t] = "sm_flatten") =>
               (message[loc[t].top] = t <=> Len(loc[t].chunks) > 1)
        /\ (~InLoop(t) /\ pc[t] # "sm_flatten") =>
               \A p \in Ports : message[p] # t

\* C20 witness: a send of two chunks awaits a slot of the full queue with
\* the flatten-buffer mutex in its hands.
C20_Witness ==
    \E t \in Tasks :
        /\ AwaitsSlot(t) /\ Len(loc[t].chunks) > 1
        /\ message[loc[t].top] = t
        /\ packets[loc[t].top] = t

(***************************************************************************)
(* Wakeups of the receive paths                                            *)
(***************************************************************************)
\* the messages dispatched to the listener of type 1
ListenMsgs == {[src |-> Eid.peer, typ |-> 1, to |-> TRUE, tv |-> tv,
                plen |-> 1] : tv \in TagValues}

\* C11: no wakeup is lost on the listener path: while the listener stays
\* bound and keeps receiving, every message that incoming_listener put in
\* the deferred set for it, before or after its first poll, is eventually
\* returned by its recv, with the message's source, type, tag and payload.
C11_NoLostWakeup ==
    \A h \in Handles, m \in ListenMsgs :
        (/\ stack.re[h].st = "deferred"
         /\ stack.re[h].cookie # None
         /\ fetch_message(stack, h) = m)
        ~> (\E t \in Apps : /\ Returned(t, "lrecv")
                            /\ loc[t].res = "Ok"
                            /\ loc[t].h = h
                            /\ loc[t].rmsg = m)

\* the tasks inside a recv of a listener that has not resolved
InListenerRecv(t) ==
    loc[t].op = "lrecv" /\ pc[t] \in {"rcv_poll", "rcv_locked", "rcv_wait"}

\* a recv of the listener that is under way while a message is deferred for
\* its cookie, suspended or not, returns a message
C11_Woken ==
    \A t \in Apps :
        (/\ InListenerRecv(t)
         /\ get_deferred_bycookie(stack, Unwrap(loc[t].cookie)) # None)
        ~> (Returned(t, "lrecv") /\ loc[t].res = "Ok")

\* the message a recv of the listener returns is one that was deferred for
\* its cookie, the one the stack hands out, with its source, type, tag and
\* payload length
C11_Returns ==
    [][\A t \in Apps :
          (InListenerRecv(t) /\ pc'[t] = "done") =>
              LET h == loc'[t].h
              IN  /\ get_deferred_bycookie(stack, Unwrap(loc[t].cookie))
                        = Some(h)
                  /\ stack.re[h].st = "deferred"
                  /\ fetch_message(stack, h) \in ListenMsgs
                  /\ loc'[t].res = "Ok"
                  /\ loc'[t].rmsg = fetch_message(stack, h)]_vars

\* C11 as amended: no wakeup is lost on the listener path: a recv of the
\* bound listener that is under way while a message is deferred for it,
\* dispatched before or after its first poll, returns a message dispatched
\* to the listener, with that message's source, type, tag and payload; which
\* of several deferred messages it returns is the choice of the stack.
C11_ListenerServed == C11_Woken /\ C11_Returns

\* C11 witness: a recv that found nothing and suspended was woken by the
\* dispatch of a message, which now waits for it in the deferred set.
C11_Witness ==
    \E t \in Apps :
        /\ pc[t] = "rcv_poll" /\ loc[t].op = "lrecv"
        /\ loc[t].res = "Pending"
        /\ get_deferred_bycookie(stack, Unwrap(loc[t].cookie)) # None

(***************************************************************************)
(* Responses and request channels, under SpecResp                          *)
(***************************************************************************)
\* the deferred responses that a selection <<tv, eid>> matches
Matching(sel) ==
    {h \in Handles : /\ stack.re[h].st = "deferred"
                     /\ ~stack.re[h].to
                     /\ stack.re[h].tv = sel[1]
                     /\ stack.re[h].src = sel[2]}

\* the request channels inside a recv, and those suspended in it
ReqReceivers == {t \in Apps : /\ loc[t].op = "rrecv"
                              /\ pc[t] \in {"rcv_poll", "rcv_locked",
                                             "rcv_wait"}}
ReqWaiters == {t \in ReqReceivers : pc[t] = "rcv_wait"}

\* incoming_response defers the handle and wakes every receive-waiter
C12_Dispatch ==
    [][\A d \in Drivers :
          (pc[d] = "ir_locked" /\ pc'[d] = "done") =>
              /\ stack'.re[loc[d].h].st = "deferred"
              /\ \A t \in ReqWaiters : pc'[t] = "rcv_poll"
              /\ app_receive_wakers' = {}]_vars

\* a suspended recv has its waker registered and no response to take
C12_Registered ==
    \A t \in ReqWaiters :
        /\ t \in app_receive_wakers
        /\ Matching(Unwrap(loc[t].sel)) = {}

\* a poll consumes a response of its own selection, and that one only, or
\* registers again and stays pending
C12_Poll ==
    [][\A t \in ReqReceivers :
          (pc[t] = "rcv_locked" /\ pc'[t] # "rcv_locked") =>
              LET m == Matching(Unwrap(loc[t].sel))
              IN  IF m = {}
                  THEN /\ pc'[t] = "rcv_wait"
                       /\ t \in app_receive_wakers'
                       /\ stack' = stack
                  ELSE /\ Returned(t, "rrecv")' /\ loc'[t].res = "Ok"
                       /\ loc'[t].h \in m
                       /\ loc'[t].rmsg = fetch_message(stack, loc'[t].h)
                       /\ stack' = finished_receive(stack, loc'[t].h)]_vars

\* a recv with a response of its selection in the deferred set resolves
C12_Resolves ==
    \A t \in Apps :
        (t \in ReqReceivers /\ Matching(Unwrap(loc[t].sel)) # {})
        ~> (/\ Returned(t, "rrecv") /\ loc[t].res = "Ok"
            /\ ~loc[t].rmsg.to
            /\ <<loc[t].rmsg.tv, loc[t].rmsg.src>> = Unwrap(loc[t].sel))

\* C12: with several request channels suspended in recv, a complete
\* message with a non-owner tag is put in the deferred set and all the
\* receive-waiters are woken; the waiter whose selection (tag value, EID)
\* matches consumes it and resolves with it, the handle being free after;
\* a waiter that does not match registers its waker again and stays
\* pending, so that no recv is suspended unregistered or with its response
\* deferred, and a later response for it reaches it.
C12_ResponseWakeup ==
    /\ C12_Dispatch
    /\ []C12_Registered
    /\ C12_Poll
    /\ C12_Resolves

\* C12 witness: two request channels were suspended in recv, a response for
\* one of them was dispatched, and both have been woken.
C12_Witness ==
    /\ \E d \in Drivers : Returned(d, "inbound") /\ loc[d].res = "response"
    /\ \A t \in Apps : /\ t \in ReqReceivers /\ pc[t] = "rcv_poll"
                       /\ loc[t].res = "Pending"
    /\ \E t \in Apps : Matching(Unwrap(loc[t].sel)) # {}
    /\ \E t \in Apps : Matching(Unwrap(loc[t].sel)) = {}

(***************************************************************************)
(* Expiry, under SpecTime                                                  *)
(***************************************************************************)
\* the flow of a selection <<tv, eid>> is gone from the stack
FlowExpired(sel) ==
    ~\E f \in stack.flows : f.tv = sel[1] /\ f.eid = sel[2]

\* update_time wakes every receive-waiter when something expired
C13_WakesAll ==
    [][\A d \in Drivers :
          (pc[d] = "ut_locked" /\ pc'[d] = "done"
              /\ loc'[d].res = "expired") =>
              /\ \A t \in ReqWaiters : pc'[t] = "rcv_poll"
              /\ app_receive_wakers' = {}]_vars

\* C13: when update_time reports an expiry, the receive-waiters are woken,
\* and a request channel whose recv was suspended for the response of the
\* flow that expired is unblocked with an error: woken with its flow gone,
\* its recv returns an error.
C13_ExpiryUnblocks ==
    /\ C13_WakesAll
    /\ \A t \in Apps :
           (/\ t \in ReqReceivers /\ pc[t] = "rcv_poll"
            /\ loc[t].res = "Pending"
            /\ FlowExpired(Unwrap(loc[t].sel)))
           ~> (Returned(t, "rrecv") /\ loc[t].res \notin {"Ok", "Pending"})

(***************************************************************************)
(* The request channel's tag, under SpecFlow                               *)
(***************************************************************************)
\* the flows to eid that do not expire
NoExpireFlows(eid) == {f \in stack.flows : f.eid = eid /\ ~f.expires}

\* C14: every flow that start_send allocated for a non-expiring request
\* channel is released by cancel_flow in async_drop, whether the
\* send_vectored that allocated it returned Ok or an error after start_send:
\* when async_drop has returned, no flow of the channel is left.
C14_DropReleases ==
    \A t \in Apps :
        Returned(t, "async_drop") => NoExpireFlows(req[t].eid) = {}

\* C15: misuse of a request channel is rejected without side effects.  A
\* recv on a channel that stored no tag (no send succeeded) returns
\* BadArgument at once: the router mutex is not taken, no waker is
\* registered, nothing changes.  tag_noexpire after a successful send
\* returns BadArgument and leaves tag_expires and sent_tag as they were;
\* before the first send it returns Ok and sets tag_expires to false.
C15_MisuseRejected ==
    [][\A t \in Apps :
          /\ (pc[t] = "idle" /\ loc'[t].op = "rrecv") =>
                 IF req[t].sent_tag = None
                 THEN /\ Returned(t, "rrecv")'
                      /\ loc'[t].res = "BadArgument"
                      /\ UNCHANGED <<inner, app_receive_wakers, stack, req,
                                     app_listeners>>
                 ELSE pc'[t] = "rcv_poll"
          /\ (pc[t] = "idle" /\ loc'[t].op = "tag_noexpire") =>
                 /\ Returned(t, "tag_noexpire")'
                 /\ UNCHANGED <<inner, app_receive_wakers, stack>>
                 /\ IF req[t].sent_tag # None
                    THEN loc'[t].res = "BadArgument" /\ req' = req
                    ELSE /\ loc'[t].res = "Ok"
                         /\ req' = [req EXCEPT ![t].tag_expires = FALSE]
                         /\ req'[t].sent_tag = None]_vars

\* C15 witness: tag_noexpire was refused on a channel that has sent, and
\* the channel's tag still expires.
C15_Witness ==
    \E t \in Apps : /\ Returned(t, "tag_noexpire")
                     /\ loc[t].res = "BadArgument"
                     /\ req[t].sent_tag # None
                     /\ req[t].tag_expires

(***************************************************************************)
(* Routing, under SpecRoute                                                *)
(***************************************************************************)
\* C16: app_send_message returns TxFailure when by_eid(eid, None) gives no
\* port or a port id outside the ports slice; then start_send was not
\* called (the stack is as it was), no packet was enqueued on any port and
\* the router mutex is free.
C16_NoRouteTxFailure ==
    [][\A t \in Apps :
          (/\ pc[t] = "snd_locked" /\ pc'[t] # "snd_locked"
           /\ \/ by_eid(req[t].eid, None) = None
              \/ Unwrap(by_eid(req[t].eid, None)) \notin Ports) =>
              /\ Returned(t, "send")'
              /\ loc'[t].res = "TxFailure"
              /\ stack' = stack
              /\ chan' = chan
              /\ inner' = NoTask]_vars

\* C16 witness: a send to an endpoint routed to a missing port has failed.
C16_Witness ==
    \E t \in Apps : /\ Returned(t, "send")
                     /\ loc[t].res = "TxFailure"
                     /\ req[t].eid = Eid.badport

\* what a call has asked the routing callback so far
Asked(t) == loc[t].lookup

\* by_eid is asked for the packets and messages that leave the endpoint,
\* with the port of arrival or with None
C17_Lookups ==
    \A t \in Tasks :
        /\ (loc[t].op = "inbound" /\ Asked(t) # None) =>
               /\ header(loc[t].pkt) # None
               /\ Asked(t) = Some(<<loc[t].pkt.dest, Some(loc[t].port)>>)
        /\ (loc[t].op = "inbound" /\ pc[t] \in {"inb_lock", "inb_locked"}) =>
               Asked(t) = None
        /\ (loc[t].op = "send" /\ Asked(t) # None) =>
               Asked(t) = Some(<<req[t].eid, None>>)
        /\ (loc[t].op = "send" /\ pc[t] \notin {"snd_lock", "snd_locked"}) =>
               Asked(t) # None

\* inbound decides under the router mutex, with the own EID of that
\* moment, and what it asked stays as it is until the call is over
C17_InboundAsks ==
    [][\A t \in Drivers :
          /\ (pc[t] = "inb_locked" /\ pc'[t] # "inb_locked") =>
                 Asked(t)' =
                     IF \/ header(loc[t].pkt) = None
                        \/ is_local_dest(stack, loc[t].pkt)
                     THEN None
                     ELSE Some(<<loc[t].pkt.dest, Some(loc[t].port)>>)
          /\ (loc[t].op = "inbound" /\ loc'[t].op = "inbound"
                 /\ pc[t] # "inb_locked") =>
                 Asked(t)' = Asked(t)]_vars

\* a packet for which by_eid finds no route is enqueued on no port
C17_NoRouteNoQueue ==
    [][\A t \in Drivers :
          (/\ pc[t] = "inb_locked" /\ pc'[t] # "inb_locked"
           /\ header(loc[t].pkt) # None
           /\ ~is_local_dest(stack, loc[t].pkt)
           /\ by_eid(loc[t].pkt.dest, Some(loc[t].port)) = None) =>
              /\ Returned(t, "inbound")'
              /\ chan' = chan]_vars

\* C17: the routing callback is asked only for what leaves the endpoint:
\* inbound does not call by_eid for a packet that is for this endpoint,
\* also when its reassembly fails, calls it with Some(port of arrival) for
\* every other packet whose header parses, and app_send_message calls it
\* with None; a packet by_eid finds no route for is enqueued on no port.
C17_RoutingCallback ==
    []C17_Lookups /\ C17_InboundAsks /\ C17_NoRouteNoQueue

\* C17 witness: inbound has returned for a packet for this endpoint that
\* the reassembly refused, without asking by_eid, and the application has
\* sent a message, asking by_eid without a port.
C17_Witness ==
    /\ \E t \in Drivers : /\ Returned(t, "inbound")
                           /\ is_local_dest(stack, loc[t].pkt)
                           /\ loc[t].res = "err"
                           /\ Asked(t) = None
    /\ \E t \in Apps : /\ Returned(t, "send")
                        /\ Asked(t) = Some(<<Eid.peer, None>>)

(***************************************************************************)
(* The consumer side of a port, under SpecDrain                            *)
(***************************************************************************)
\* the packet peeked is the one any further peek returns
C18_SamePacket ==
    \A t \in Consumers :
        pc[t] = "peeked" =>
            /\ loc[t].peek # None
            /\ outbound(chan[0]) = loc[t].peek
            /\ loc[t].peek = Some(Head(Visible(chan[0])))

\* a peek leaves the queue as it is; outbound_done removes the head only
C18_Steps ==
    [][\A t \in Consumers :
          /\ (pc[t] = "idle" /\ pc'[t] = "peeked") =>
                 /\ chan' = chan
                 /\ loc'[t].peek = Some(Head(Visible(chan[0])))
          /\ (pc[t] = "peeked" /\ pc'[t] = "peeked") =>
                 loc'[t].peek = loc[t].peek
          /\ (pc[t] = "peeked" /\ pc'[t] = "idle") =>
                 /\ Visible(chan'[0]) = Tail(Visible(chan[0]))
                 /\ \A p \in Ports \ {0} : chan'[p] = chan[p]]_vars

\* C18: calls of outbound and try_outbound with no outbound_done between
\* them return the same packet, bytes and destination, and leave the queue
\* unchanged, also while the producer commits more packets; outbound_done
\* removes the head packet and nothing else, so the next peek returns the
\* packet that was committed next.
C18_PeekStable == []C18_SamePacket /\ C18_Steps

\* C18 witness: the consumer holds a peeked packet while the queue has
\* filled up behind it with a different packet.
C18_Witness ==
    \E t \in Consumers :
        /\ pc[t] = "peeked"
        /\ ChanLen(chan[0]) = FORWARD_QUEUE
        /\ Visible(chan[0])[FORWARD_QUEUE] # Unwrap(loc[t].peek)

(***************************************************************************)
(* The producers of a port, under SpecProd                                 *)
(***************************************************************************)
\* send_message of task s has a message of several packets under way and
\* has committed n of them at least
LongSend(s, n) ==
    /\ InLoop(s)
    /\ payload_len(loc[s].chunks) > loc[s].frag.mtu - HdrLen
    /\ ~loc[s].frag.done
    /\ Committed(s) >= n

\* C21: other producers of a port are not starved during a send_message of
\* several packets: a forward_packet that waits for the producer mutex
\* while the first packet of the message is written gets the mutex between
\* two fragments of that message, not only after the whole message.
C21_NotStarved ==
    \A t \in Drivers, s \in Apps :
        (/\ pc[t] = "fwd_lock" /\ LongSend(s, 0) /\ Committed(s) = 0
         /\ loc[t].top = loc[s].top
         /\ packets[loc[s].top] = s)
        ~> (/\ packets[loc[s].top] = t /\ loc[t].top = loc[s].top
            /\ LongSend(s, 1))

(***************************************************************************)
(* Termination of send_message: two applications send messages of two     *)
(* packets to the peer behind port 0.  The first sends messages of two     *)
(* chunks from a response channel it holds; the second is a listener that  *)
(* receives the requests the driver delivers, one at a time, and answers   *)
(* with a message of one chunk or of two.  So the two calls of             *)
(* send_message meet at the flatten-buffer mutex when both have two        *)
(* chunks, and at the producer mutex when the answer has one.  The driver  *)
(* also forwards packets to port 0, and the consumer drains it.  The       *)
(* fragmenters report no error here.  A task that can take a step takes    *)
(* one, a task waiting for a mutex that is free again and again gets it.   *)
(***************************************************************************)
DriverTerm(t) ==
    \/ DriverProd(t)
    \/ \E pkt \in {q \in ReqPkts : q.typ = 1} :
          /\ \A h \in Handles : stack.re[h].st = "free"
          /\ CallInbound(t, pkt, 0)
    \/ InbLocal(t)
    \/ IncomingListener(t)

AppTerm(t) ==
    \/ pc[t] = "idle" /\ CallRespSend(t, Eid.peer, 0, 1, <<1, MAX_PAYLOAD - 1>>)
    \/ SendStart(t)
    \/ SmFlatten(t)
    \/ SmPacket(t)
    \/ SmSendDone(t)
    \/ Return(t)

ListenTerm(t) ==
    \/ (\A c \in Cookies : ~IsBound(app_listeners[c])) /\ ListenerNew(t, 1)
    \/ \E c \in Cookies, n \in BufLens : CallListenerRecv(t, c, n)
    \/ RecvPending(t)
    \/ RecvReady(t)
    \/ \E bufs \in {<<MAX_PAYLOAD>>, <<1, MAX_PAYLOAD - 1>>} :
          pc[t] = "done" /\ CallRespSend(t, loc[t].rmsg.src, loc[t].rmsg.tv,
                                          loc[t].rmsg.typ, bufs)
    \/ SendStart(t)
    \/ SmFlatten(t)
    \/ SmPacket(t)
    \/ SmSendDone(t)
    \/ Return(t)

NextTerm ==
    \/ \E t \in Drivers :
          DriverTerm(t) \/ InbLock(t) \/ FwdLock(t) \/ IncomingLock(t)
    \/ \E t \in FirstApp :
          AppTerm(t) \/ SendLock(t) \/ SmMsgLock(t) \/ SmLock(t)
    \/ \E t \in Apps \ FirstApp :
          \/ ListenTerm(t)
          \/ RecvLock(t) \/ SendLock(t) \/ SmMsgLock(t) \/ SmLock(t)
    \/ OutboundDone(0)

SpecTerm ==
    /\ Init /\ [][NextTerm]_vars
    /\ \A t \in Drivers :
           /\ WF_vars(DriverTerm(t))
           /\ SF_vars(InbLock(t) \/ FwdLock(t) \/ IncomingLock(t))
    /\ \A t \in FirstApp :
           /\ WF_vars(AppTerm(t))
           /\ SF_vars(SendLock(t) \/ SmMsgLock(t) \/ SmLock(t))
    /\ \A t \in Apps \ FirstApp :
           /\ WF_vars(ListenTerm(t))
           /\ SF_vars(RecvLock(t) \/ SendLock(t) \/ SmMsgLock(t)
                         \/ SmLock(t))
    /\ WF_vars(OutboundDone(0))

\* tasks inside send_message
InSendMessage(t) == pc[t] \in {"sm_msg_lock", "sm_flatten"} \/ InLoop(t)

\* the packets the fragmenter of f produces for a payload of `total` bytes
FragCount(f, total) ==
    LET room == f.mtu - HdrLen
    IN  IF total = 0 THEN 1 ELSE (total + room - 1) \div room

\* a set of tasks each suspended on a mutex that a task of the set owns
WaitCycle(W) ==
    /\ W # {}
    /\ \A t \in W : /\ WaitsFor(t) # {}
                     /\ \A l \in WaitsFor(t) : Owner(l) \in W

\* a send on a request channel or on a response channel has returned
SendReturned(s) == pc[s] = "done" /\ loc[s].op \in {"send", "rsend"}

\* no send_message goes on forever
C22_Returns == \A s \in Apps : []<>~InSendMessage(s)

\* send_message is left by returning only, from the round it is in: Ok
\* after the commit of the last packet the fragmenter produces, every
\* packet before it committed in its own round, or the error of the
\* fragmenter
C22_Result ==
    [][\A s \in Apps :
          (InSendMessage(s) /\ ~InSendMessage(s)') =>
              LET p == loc[s].top
                  f == loc'[s].frag
              IN  /\ SendReturned(s)'
                  /\ pc[s] \in {"sm_packet", "sm_error"}
                  /\ Len(Visible(chan'[p])) = Len(Visible(chan[p])) + 1
                  /\ pc[s] = "sm_packet" =>
                        /\ loc'[s].res = "Ok"
                        /\ f.done
                        /\ f.sent = payload_len(loc[s].chunks)
                        /\ f.seq = FragCount(f, payload_len(loc[s].chunks))
                  /\ pc[s] = "sm_error" => loc'[s].res = "FragError"]_vars

\* no set of tasks wait on each other
C22_NoWaitCycle == \A W \in SUBSET Tasks : ~WaitCycle(W)

ErrorCommit(t) == pc[t] = "sm_error" /\ pc'[t] # "sm_error"

\* C23: when the fragmenter reports an error, send_message still commits
\* the slot it reserved, with len 0 and the destination of the fragmenter,
\* so the consumer sees one more, empty, packet behind everything queued
\* before, the earlier packets of the message included; send_message then
\* returns the error of the fragmenter, the fragmenter not advanced and the
\* producer mutex free, so no further fragment of the message is queued.
C23_ErrorCommitsSlot ==
    [][\A t \in Tasks :
          ErrorCommit(t) =>
              LET p == loc[t].top
                  V == Visible(chan[p])
                  W == Visible(chan'[p])
              IN  /\ Len(W) = Len(V) + 1
                  /\ \A i \in 1 .. Len(V) : W[i] = V[i]
                  /\ W[Len(W)].len = 0
                  /\ W[Len(W)].dest = loc[t].frag.dest
                  /\ pc'[t] = "done"
                  /\ loc'[t].res = "FragError"
                  /\ loc'[t].frag = loc[t].frag
                  /\ packets'[p] = NoTask]_vars

\* C23 witness: send_message returned the error of the fragmenter from its
\* second round; the first fragment and the empty packet behind it are
\* queued.
C23_Witness ==
    \E t \in Tasks :
        /\ Returned(t, "send") /\ loc[t].res = "FragError"
        /\ loc[t].frag.seq = 1
        /\ LET V == Visible(chan[loc[t].top])
           IN  /\ Len(V) = 2
               /\ IsFragment(V[1], loc[t].frag, 0)
               /\ V[2].len = 0 /\ V[2].dest = loc[t].frag.dest

(***************************************************************************)
(* A receive that finds its message, under Spec                            *)
(***************************************************************************)
\* the step of app_recv_message that resolves the receive of task t
Resolves(t) == pc[t] = "rcv_locked" /\ pc'[t] = "done"

\* C24: a receive that finds a matching deferred message resolves NoSpace
\* when the message is longer than the caller's buffer and with the message
\* otherwise, and in both cases finishes the handle: the message leaves the
\* deferred set, so that no later receive finds it, and no other handle is
\* touched: one handle is finished per receive that resolves.
C24_NoSpaceFinishes ==
    [][\A t \in Apps :
          Resolves(t) =>
              LET h == loc'[t].h
                  msg == fetch_message(stack, h)
              IN  /\ recv_handle(stack, loc[t].cookie, loc[t].sel) = Some(h)
                  /\ stack.re[h].st = "deferred"
                  /\ stack'.re[h] = FreeRe
                  /\ \A g \in Handles \ {h} : stack'.re[g] = stack.re[g]
                  /\ recv_handle(stack', loc[t].cookie, loc[t].sel) # Some(h)
                  /\ msg.plen > loc[t].buflen =>
                        loc'[t].res = "NoSpace" /\ loc'[t].rmsg = NoMsg
                  /\ msg.plen <= loc[t].buflen =>
                        loc'[t].res # "NoSpace" /\ loc'[t].rmsg = msg]_vars

\* C24 witness: a receive resolved NoSpace for a message of two fragments,
\* the handle of the message is free again, and another message is still
\* deferred.
C24_Witness ==
    \E t \in Apps :
        /\ Returned(t, "lrecv") /\ loc[t].res = "NoSpace"
        /\ stack.re[loc[t].h].st = "free"
        /\ \E g \in Handles : stack.re[g].st = "deferred"

(***************************************************************************)
(* Dispatch of a complete local message, under Spec                        *)
(***************************************************************************)
\* the tasks that hold the ReceiveHandle h between stack.receive and the
\* dispatch
Holders(h) ==
    {t \in Tasks : /\ pc[t] \in {"il_lock", "il_locked", "ir_lock", "ir_locked"}
                   /\ loc[t].h = h}

\* the step of incoming_listener or incoming_response that disposes of the
\* handle of task t
Dispatches(t) == pc[t] \in {"il_locked", "ir_locked"} /\ pc'[t] = "done"

\* the occupied listener slots of a type
Listening(typ) ==
    {c \in Cookies : IsBound(app_listeners[c]) /\ app_listeners[c].typ = typ}

\* a handle the router holds is held by one call
C25_OneHolder ==
    \A h \in Handles : stack.re[h].st = "busy" <=> Cardinality(Holders(h)) = 1

\* the dispatch disposes of the handle once: to the deferred set or to the
\* stack as finished; without a listener of the type it is finished, no
\* waker is woken and nothing else changes
C25_Dispatch ==
    [][\A t \in Drivers :
          Dispatches(t) =>
              LET h == loc[t].h
              IN  /\ stack.re[h].st = "busy"
                  /\ stack'.re[h].st \in {"deferred", "free"}
                  /\ \A g \in Handles \ {h} : stack'.re[g] = stack.re[g]
                  /\ (pc[t] = "il_locked" /\ Listening(stack.re[h].typ) = {}) =>
                        /\ stack'.re[h] = FreeRe
                        /\ \A u \in Tasks \ {t} : pc'[u] = pc[u]
                        /\ app_listeners' = app_listeners
                        /\ app_receive_wakers' = app_receive_wakers
                        /\ \A c \in Cookies :
                              get_deferred_bycookie(stack', c) =
                                  get_deferred_bycookie(stack, c)
                  /\ (pc[t] = "il_locked" /\ Listening(stack.re[h].typ) # {}) =>
                        /\ stack'.re[h].st = "deferred"
                        /\ Unwrap(stack'.re[h].cookie)
                               \in Listening(stack.re[h].typ)
                  /\ pc[t] = "ir_locked" => stack'.re[h].st = "deferred"]_vars

\* C25: a complete local message with the owner bit whose type has no
\* occupied listener slot at dispatch is reported finished to the stack: it
\* never enters the deferred set, no waker is woken, and no listener, bound
\* then or later, finds it; every handle stack.receive returned is held by
\* one call and is either returned to the deferred set or finished, once.
C25_NoListenerDiscards == []C25_OneHolder /\ C25_Dispatch

\* C25 witness: a request was discarded for want of a listener of its type
\* while a listener of another type waits in recv; its slot is free and the
\* listener still waits.
C25_Witness ==
    \E t \in Drivers, u \in Apps :
        /\ pc[t] = "done" /\ loc[t].res = "nolistener"
        /\ stack.re[loc[t].h].st = "free"
        /\ pc[u] = "rcv_wait" /\ loc[u].op = "lrecv"
        /\ loc[u].ltyp # loc[t].pkt.typ

====
